---- MODULE Spec2Model ----
(***************************************************************************)
(* A model of octobors' merge-eligibility engine.                          *)
(*                                                                         *)
(*   Spec        the reviewer-approval reducer of src/review.rs: a Reviews *)
(*               value that records one review after the other.            *)
(*   SpecPr      one pass over one PR of src/process.rs: the polling pass  *)
(*               of the Analyzer (required_actions) or the pass for one    *)
(*               event (process_event, process_pr), on a PR whose reviews  *)
(*               are listed on one page.                                   *)
(*   SpecPaging  the pass for one event on a PR whose listed page of       *)
(*               reviews names a next page.                                *)
(*   SpecRepo    the polling pass of the Analyzer on the RepoConfig of     *)
(*               src/context.rs and the PRs of src/process/tests.rs.       *)
(*   SpecTwice   two calls of required_actions on one Analyzer while time  *)
(*               passes.                                                   *)
(*   SpecQueue   merge::queue of src/merge.rs, called by                   *)
(*               RepoProcessor::apply, while users push and label.         *)
(*   SpecQueueFair  SpecQueue with the awaits of queue completing.          *)
(*   SpecMessage the commit message merge::queue builds from the body of   *)
(*               the PR (remove_html_comments, format_commit_message).     *)
(*   SpecBatch   Octobors::process_all of src/lib.rs: the repositories one *)
(*               after the other, the PRs of a repository as concurrent    *)
(*               futures that share the Client of src/context.rs.          *)
(***************************************************************************)
EXTENDS Integers, Sequences, FiniteSets, TLC

(***************************************************************************)
(* Bounds of the model.                                                    *)
(***************************************************************************)
\* The longest review history recorded into one Reviews value.
MaxReviews == 3

\* The longest list of reviews the platform returns to a polling pass.
MaxPrReviews == 2

\* The size of a page of listed reviews: the longest list of reviews the
\* platform returns to an event pass.
MaxListedReviews == 1

\* The most turns of a page loop that are followed.
MaxPageFetches == 2

(***************************************************************************)
(* src/review.rs                                                           *)
(***************************************************************************)
\* octocrab's ReviewState, as matched by Reviews::record.
ReviewState == {"Approved", "ChangesRequested", "Commented", "Pending"}

\* enum Status
Status == {"Approved", "ChangeRequested"}

\* enum CommentEffect
CommentEffect == {"RequestsChange", "Ignore"}

\* enum Approval
Approval == {"Required", "Optional"}

\* The PR author of the ledger runs, and the nicknames that submit reviews
\* (the author can review their own PR).
Authors == {"example"}
Nicks == {"a", "b", "example"}

\* struct Review { user_name, state }
Review == [user_name : Nicks, state : ReviewState]

\* HashMap::new()
EmptyMap == << >>

\* HashMap::insert: the entry of k is created or overwritten.
Insert(m, k, v) == [x \in (DOMAIN m) \cup {k} |-> IF x = k THEN v ELSE m[x]]

\* Mutant of the match of Reviews::record: a comment is not counted once
\* anybody has approved.
record_status_any_approval(m, effect, review) ==
    CASE review.state = "Approved" -> "Approved"
      [] review.state = "ChangesRequested" -> "ChangeRequested"
      [] review.state = "Commented" /\ effect = "RequestsChange" ->
            IF \E u \in DOMAIN m : m[u] = "Approved"
            THEN "None"
            ELSE "ChangeRequested"
      [] OTHER -> "None"

\* The match of Reviews::record on (review.state, comment_effect); "None"
\* stands for the Option's None.
record_status(m, effect, review) ==
    CASE review.state = "Approved" -> "Approved"
      [] review.state = "ChangesRequested" -> "ChangeRequested"
      [] review.state = "Commented" /\ effect = "RequestsChange" ->
            IF review.user_name \in DOMAIN m /\ m[review.user_name] = "Approved"
            THEN "None"
            ELSE "ChangeRequested"
      [] OTHER -> "None"

\* Mutant of record: self-reviews are recorded like any other.
record_counts_self(m, who, effect, review) ==
    LET status == record_status(m, effect, review)
    IN  IF status # "None" THEN Insert(m, review.user_name, status) ELSE m

\* Mutant of record: a comment after an approval counts as a change request.
record_comment_regresses(m, who, effect, review) ==
    IF review.user_name = who THEN m
    ELSE LET status ==
                 CASE review.state = "Approved" -> "Approved"
                   [] review.state = "ChangesRequested" -> "ChangeRequested"
                   [] review.state = "Commented" /\ effect = "RequestsChange" ->
                         "ChangeRequested"
                   [] OTHER -> "None"
         IN  IF status # "None" THEN Insert(m, review.user_name, status) ELSE m

\* Reviews::record, on the map m of a Reviews value of author `who` and
\* comment effect `effect`: the map after the review.
record(m, who, effect, review) ==
    IF review.user_name = who THEN m
    ELSE LET status == record_status(m, effect, review)
         IN  IF status # "None" THEN Insert(m, review.user_name, status) ELSE m

\* Reviews::record_reviews on a fresh Reviews::new(who, effect): the reviews
\* are recorded first to last.
RECURSIVE record_reviews(_, _, _, _)
record_reviews(m, who, effect, reviews) ==
    IF reviews = << >> THEN m
    ELSE record_reviews(record(m, who, effect, Head(reviews)), who, effect,
                        Tail(reviews))

\* The loop of Reviews::approved over the entries not yet visited. The
\* HashMap's iteration order is unspecified; the result does not depend on it
\* since the only early exit returns false and the only assignment sets true.
RECURSIVE approved_loop(_, _, _)
approved_loop(m, left, acc) ==
    IF left = {} THEN acc
    ELSE LET user == CHOOSE u \in left : TRUE
         IN  IF m[user] = "Approved"
             THEN approved_loop(m, left \ {user}, TRUE)
             ELSE FALSE

\* Mutant of approved: a ChangeRequested entry is skipped instead of
\* returning false.
approved_no_veto(m, approval_required) ==
    (approval_required = "Optional") \/ (\E u \in DOMAIN m : m[u] = "Approved")

\* Mutant of approved: the flag starts false whatever approval is required.
approved_starts_false(m, approval_required) ==
    approved_loop(m, DOMAIN m, FALSE)

\* Reviews::approved
approved(m, approval_required) ==
    approved_loop(m, DOMAIN m, approval_required = "Optional")

(***************************************************************************)
(* src/process.rs: the Analyzer (required_actions).                        *)
(***************************************************************************)
\* Option::None, for every optional field.
None == "None"

\* Option::None of an optional time.
NoTime == 0 - 1

\* models::IssueState
IssueState == {"Open", "Closed"}

\* models::StatusState
StatusState == {"Success", "Pending", "Failure", "Error"}

\* Duration::minutes(60): a PR not updated for longer is inactive.
InactiveMinutes == 60

\* Time is counted in seconds.
SecondsPerMinute == 60

\* The label names of the configurations, as in tests.rs make_context.
ReviewedLabel == "reviewed"
NeedsDescriptionLabel == "needs-description"
CiPassedLabel == "ci-passed"
BlockMergeLabel == "block-merge"

\* The status contexts reported for a commit.
Contexts == {"status1", "status2"}

\* The users that review a PR (Review.user_id).
UserIds == {1, 2}

\* struct Review { user_id, state } of process.rs
PrReview == [user_id : UserIds, state : ReviewState]

\* The sequences over S of length at most n.
SeqsUpTo(S, n) == UNION {[1..k -> S] : k \in 0..n}

\* HashMap<String, StatusState>: the statuses reported for a commit.
StatusMaps == UNION {[D -> StatusState] : D \in SUBSET Contexts}

\* context::Config as read by process.rs.
Configs ==
    [ reviewed_label : {None, ReviewedLabel},
      needs_description_label : {None, NeedsDescriptionLabel},
      ci_passed_label : {CiPassedLabel},
      block_merge_label : {None, BlockMergeLabel},
      required_statuses : {<< >>, <<"status1">>, <<"status1", "status2">>} ]

\* PR::from_octocrab_pull_request: the snapshot the Analyzer works on.
from_octocrab_pull_request(pull) ==
    [ draft |-> pull.draft,
      state |-> pull.state,
      updated_at |-> IF pull.updated_at = NoTime THEN pull.created_at ELSE pull.updated_at,
      has_description |-> (IF pull.body = None THEN "" ELSE pull.body) # "",
      labels |-> {pull.labels[i] : i \in DOMAIN pull.labels},
      commit_sha |-> pull.head_sha ]

\* Actions::noop()
noop == [merge |-> FALSE, add_labels |-> {}, remove_labels |-> {}]

\* Presence::should_be_present
should_be_present(should) == IF should THEN "Present" ELSE "Absent"

\* Actions::set_label
set_label(actions, label, presence) ==
    IF presence = "Present"
    THEN [actions EXCEPT !.add_labels = @ \cup {label}]
    ELSE [actions EXCEPT !.remove_labels = @ \cup {label}]

\* Actions::set_merge
set_merge(actions, should_merge) == [actions EXCEPT !.merge = should_merge]

\* The collect::<HashMap<_, _>>() of pr_approved: a later review of a user
\* replaces the earlier one, whatever its state.
RECURSIVE latest_reviews_per_person(_, _)
latest_reviews_per_person(m, reviews) ==
    IF reviews = << >> THEN m
    ELSE latest_reviews_per_person(
             Insert(m, Head(reviews).user_id, Head(reviews).state), Tail(reviews))

\* The loop of pr_approved over the map's values: <<approved, waiting>>.
RECURSIVE pr_approved_loop(_, _, _)
pr_approved_loop(m, left, flags) ==
    IF left = {} THEN flags
    ELSE LET user == CHOOSE u \in left : TRUE
             review == m[user]
         IN  pr_approved_loop(m, left \ {user},
                 CASE review = "Approved" -> <<TRUE, flags[2]>>
                   [] review \in {"Pending", "ChangesRequested"} -> <<flags[1], TRUE>>
                   [] OTHER -> flags)

\* Analyzer::pr_approved, on the fetched reviews.
pr_approved(config, reviews) ==
    LET review_not_required == config.reviewed_label = None
        m == latest_reviews_per_person(EmptyMap, reviews)
        flags == pr_approved_loop(m, DOMAIN m, <<review_not_required, FALSE>>)
    IN  flags[1] /\ ~flags[2]

\* The loop of pr_statuses_passed over the required statuses not yet checked.
RECURSIVE statuses_loop(_, _)
statuses_loop(statuses, required) ==
    IF required = << >> THEN TRUE
    ELSE IF ~(Head(required) \in DOMAIN statuses /\ statuses[Head(required)] = "Success")
         THEN FALSE
         ELSE statuses_loop(statuses, Tail(required))

\* Mutant of pr_statuses_passed: only a reported non-Success status fails CI, a
\* missing one does not.
pr_statuses_passed_missing_ok(config, statuses) ==
    \A i \in DOMAIN config.required_statuses :
        config.required_statuses[i] \in DOMAIN statuses
            => statuses[config.required_statuses[i]] = "Success"

\* Analyzer::pr_statuses_passed, on the fetched statuses.
pr_statuses_passed(config, statuses) == statuses_loop(statuses, config.required_statuses)

\* Analyzer::block_merge_label_applied
block_merge_label_applied(config, p) ==
    IF config.block_merge_label = None THEN FALSE
    ELSE config.block_merge_label \in p.labels

\* Mutant of nothing_to_do: the inactivity check is missing.
nothing_to_do_no_inactivity(p, t) == p.draft \/ p.state = "Closed"

\* Mutant of nothing_to_do: a PR updated exactly an hour ago is inactive.
nothing_to_do_at_the_hour(p, t) ==
    \/ p.draft
    \/ p.state = "Closed"
    \/ p.updated_at <= t - InactiveMinutes * SecondsPerMinute

\* The early returns of required_actions: draft, closed, or inactive for over
\* an hour.
nothing_to_do(p, t) ==
    \/ p.draft
    \/ p.state = "Closed"
    \/ p.updated_at < t - InactiveMinutes * SecondsPerMinute

\* Lines 96-113 of required_actions: the label decisions.
label_actions(config, p, statuses_passed, approved_) ==
    LET a1 == IF config.reviewed_label # None
              THEN set_label(noop, config.reviewed_label, should_be_present(approved_))
              ELSE noop
        a2 == IF config.needs_description_label # None
              THEN set_label(a1, config.needs_description_label,
                             should_be_present(~p.has_description))
              ELSE a1
    IN  set_label(a2, config.ci_passed_label, should_be_present(statuses_passed))

\* description_ok of required_actions: the description is only looked at when
\* a needs-description label is configured.
description_ok(config, p) ==
    IF config.needs_description_label # None THEN p.has_description ELSE TRUE

\* Mutant of decide: the block-merge label is not looked at.
decide_ignores_block_label(config, p, statuses_passed, approved_) ==
    set_merge(label_actions(config, p, statuses_passed, approved_),
              description_ok(config, p) /\ approved_ /\ statuses_passed)

\* Mutant of decide: labels are only computed for a PR that may merge.
decide_labels_only_when_merging(config, p, statuses_passed, approved_) ==
    IF /\ ~block_merge_label_applied(config, p)
       /\ description_ok(config, p)
       /\ approved_
       /\ statuses_passed
    THEN set_merge(label_actions(config, p, statuses_passed, approved_), TRUE)
    ELSE noop

\* Lines 94-119 of required_actions: the Actions computed from the two
\* verdicts.
decide(config, p, statuses_passed, approved_) ==
    set_merge(label_actions(config, p, statuses_passed, approved_),
              /\ ~block_merge_label_applied(config, p)
              /\ description_ok(config, p)
              /\ approved_
              /\ statuses_passed)

(***************************************************************************)
(* src/process.rs: the event-driven pass (process_event, process_pr).      *)
(***************************************************************************)
\* Option<bool> of MergeState: None and Some(b).
NoneB == << >>
SomeB(b) == <<b>>

\* models::pulls::PullRequestAction, the actions on_pr_event names; "Assigned"
\* stands for the arm of the actions without bearing on automerge.
PullRequestAction ==
    {"Opened", "Reopened", "Edited", "Closed", "Synchronize", "ReviewRequested",
     "ReviewRequestRemoved", "ReadyForReview", "Labeled", "Unlabeled", "Assigned"}

\* models::pulls::PullRequestReviewAction
PullRequestReviewAction == {"Submitted", "Dismissed"}

\* enum EventTrigger, with None in the fields a variant does not have.
Triggers ==
    [kind : {"PullRequest"}, action : PullRequestAction, state : {None}, context : {None}]
    \cup [kind : {"Review"}, action : PullRequestReviewAction,
          state : {"Approved", "ChangesRequested", "Commented", None}, context : {None}]
    \cup [kind : {"Status"}, action : {None}, state : StatusState, context : Contexts]

\* struct MergeState, as process_pr creates it.
NoMergeState == [needs_description |-> NoneB, ci_passed |-> NoneB, reviewed |-> NoneB]

\* The Option<(action, review)> of on_review_state_event when it is None.
NoReview == [action |-> None, state |-> None]

\* The elements of a sequence.
Range(seq) == {seq[i] : i \in DOMAIN seq}

\* has_label: the position of the label in the list, 0 for None.
has_label(labels, name) ==
    IF \E i \in DOMAIN labels : labels[i] = name
    THEN CHOOSE i \in DOMAIN labels :
             labels[i] = name /\ \A j \in 1..(i - 1) : labels[j] # name
    ELSE 0

\* Vec::remove(i)
RemoveAt(seq, i) == SubSeq(seq, 1, i - 1) \o SubSeq(seq, i + 1, Len(seq))

\* One platform call that changes the PR.
Call(name, arg) == [call |-> name, arg |-> arg]

\* add_labels without its `?`: a refused call is not reported.
add_labels_swallows_error(labels, to_add, ok) ==
    LET absent(l) == has_label(labels, l) = 0
        new == SelectSeq(to_add, absent)
    IN  IF new = << >>
        THEN [labels |-> labels, calls |-> << >>, result |-> "Ok"]
        ELSE IF ~ok
        THEN [labels |-> labels, calls |-> <<Call("add_labels", new)>>, result |-> "Ok"]
        ELSE [labels |-> labels \o new, calls |-> <<Call("add_labels", new)>>,
              result |-> "Ok"]

\* add_labels without its filter: every label asked for is sent and pushed.
add_labels_sends_all(labels, to_add, ok) ==
    IF to_add = << >>
    THEN [labels |-> labels, calls |-> << >>, result |-> "Ok"]
    ELSE IF ~ok
    THEN [labels |-> labels, calls |-> <<Call("add_labels", to_add)>>, result |-> "Err"]
    ELSE [labels |-> labels \o to_add, calls |-> <<Call("add_labels", to_add)>>,
          result |-> "Ok"]

\* add_labels: the labels not yet in the list are sent in one call and, when
\* the call succeeds (ok), pushed onto the list.
add_labels(labels, to_add, ok) ==
    LET absent(l) == has_label(labels, l) = 0
        new == SelectSeq(to_add, absent)
    IN  IF new = << >>
        THEN [labels |-> labels, calls |-> << >>, result |-> "Ok"]
        ELSE IF ~ok
        THEN [labels |-> labels, calls |-> <<Call("add_labels", new)>>, result |-> "Err"]
        ELSE [labels |-> labels \o new, calls |-> <<Call("add_labels", new)>>,
              result |-> "Ok"]

\* The filter_map of remove_labels: each label found is taken out of the list
\* and kept for removal.
RECURSIVE remove_labels_filter(_, _, _)
remove_labels_filter(labels, to_remove, found) ==
    IF to_remove = << >> THEN [labels |-> labels, found |-> found]
    ELSE LET i == has_label(labels, Head(to_remove))
         IN  IF i = 0
             THEN remove_labels_filter(labels, Tail(to_remove), found)
             ELSE remove_labels_filter(RemoveAt(labels, i), Tail(to_remove),
                                       Append(found, Head(to_remove)))

\* remove_labels: one call per label that was in the list; a failing call is
\* logged and ignored.
remove_labels(labels, to_remove) ==
    LET r == remove_labels_filter(labels, to_remove, << >>)
    IN  [labels |-> r.labels,
         calls |-> [i \in 1..Len(r.found) |-> Call("remove_label", <<r.found[i]>>)],
         result |-> "Ok"]

\* get_mergeable_state
get_mergeable_state(labels, config) ==
    IF config.block_merge_label # None /\ has_label(labels, config.block_merge_label) # 0
    THEN FALSE
    ELSE IF /\ config.needs_description_label # None
            /\ has_label(labels, config.needs_description_label) # 0
    THEN FALSE
    ELSE IF config.reviewed_label # None /\ has_label(labels, config.reviewed_label) = 0
    THEN FALSE
    ELSE IF has_label(labels, config.ci_passed_label) = 0
    THEN FALSE
    ELSE TRUE

\* Lines 418-445 of process_pr: the labels to add and to remove for a
\* MergeState, as <<labels_to_add, labels_to_remove>>.
label_changes(ms, config) ==
    LET put(pair, flag, label) ==
            IF flag = NoneB \/ label = None THEN pair
            ELSE IF flag[1] THEN <<Append(pair[1], label), pair[2]>>
            ELSE <<pair[1], Append(pair[2], label)>>
        c1 == put(<< << >>, << >> >>, ms.needs_description, config.needs_description_label)
        c2 == put(c1, ms.reviewed, config.reviewed_label)
    IN  put(c2, ms.ci_passed, config.ci_passed_label)

\* Lines 672-718 of on_review_state_event: whether the handler gets as far as
\* listing the reviews. `review` is NoReview or the review of the event.
reviews_listed(pl, config, review) ==
    /\ config.reviewed_label # None
    /\ pl.requested_reviewers = << >>
    /\ ~( /\ review # NoReview
          /\ review.action = "Submitted"
          /\ review.state \in {"ChangesRequested", "Commented"} )

\* insert_review over a page of reviews: comments are ignored, any other state
\* replaces the reviewer's entry.
RECURSIVE insert_reviews(_, _)
insert_reviews(review_states, page) ==
    IF page = << >> THEN review_states
    ELSE insert_reviews(
             IF Head(page).state = "Commented" THEN review_states
             ELSE Insert(review_states, Head(page).user_id, Head(page).state),
             Tail(page))

\* Lines 730-769 of on_review_state_event, for a listing of one page: the
\* value stored in merge_state.reviewed.
reviewed_of(items) ==
    IF items = << >> THEN FALSE
    ELSE LET review_states == insert_reviews(EmptyMap, items)
         IN  \A u \in DOMAIN review_states : review_states[u] = "Approved"

\* on_review_state_event, when it returns: the MergeState after it. `items`
\* are the listed reviews (read only when the listing is reached).
on_review_state_event(pl, config, ms, review, items) ==
    IF reviews_listed(pl, config, review)
    THEN [ms EXCEPT !.reviewed = SomeB(reviewed_of(items))]
    ELSE ms

\* on_status_event takes a single required status from the event itself and
\* queries the statuses of the head commit otherwise.
statuses_queried(config, context) ==
    ~(Len(config.required_statuses) = 1 /\ context = config.required_statuses[1])

\* on_status_event: the MergeState after it. `combined` are the statuses of
\* the head commit (read only when they are queried).
on_status_event(config, ms, context, state, combined) ==
    IF ~statuses_queried(config, context)
    THEN [ms EXCEPT !.ci_passed = SomeB(state = "Success")]
    ELSE [ms EXCEPT !.ci_passed = SomeB(
             \A i \in DOMAIN config.required_statuses :
                 /\ config.required_statuses[i] \in DOMAIN combined
                 /\ combined[config.required_statuses[i]] = "Success")]

\* on_pr_event without its Synchronize arm: pushed commits leave the
\* MergeState alone.
on_pr_event_ignores_synchronize(pl, config, ms, action, items) ==
    CASE action \in {"Opened", "Reopened", "Edited"} ->
            IF config.needs_description_label = None
            THEN [ms EXCEPT !.needs_description = SomeB(FALSE)]
            ELSE [ms EXCEPT !.needs_description =
                      SomeB(IF pl.body = None THEN TRUE ELSE pl.body = "")]
      [] action \in {"ReviewRequested", "ReviewRequestRemoved", "ReadyForReview"} ->
            on_review_state_event(pl, config, ms, NoReview, items)
      [] OTHER -> ms

\* on_pr_event: the MergeState after it.
on_pr_event(pl, config, ms, action, items) ==
    CASE action \in {"Opened", "Reopened", "Edited"} ->
            IF config.needs_description_label = None
            THEN [ms EXCEPT !.needs_description = SomeB(FALSE)]
            ELSE [ms EXCEPT !.needs_description =
                      SomeB(IF pl.body = None THEN TRUE ELSE pl.body = "")]
      [] action = "Closed" -> ms
      [] action = "Synchronize" -> [ms EXCEPT !.ci_passed = SomeB(FALSE)]
      [] action \in {"ReviewRequested", "ReviewRequestRemoved", "ReadyForReview"} ->
            on_review_state_event(pl, config, ms, NoReview, items)
      [] action \in {"Labeled", "Unlabeled"} -> ms
      [] OTHER -> ms

\* The match of process_pr on the trigger: the MergeState after the handler.
handle_trigger(pl, config, tr, items, combined) ==
    CASE tr.kind = "PullRequest" ->
            on_pr_event(pl, config, NoMergeState, tr.action, items)
      [] tr.kind = "Review" ->
            on_review_state_event(pl, config, NoMergeState,
                                  [action |-> tr.action, state |-> tr.state], items)
      [] tr.kind = "Status" ->
            on_status_event(config, NoMergeState, tr.context, tr.state, combined)

\* Whether the handler of the trigger lists the reviews of the PR.
trigger_lists_reviews(pl, config, tr) ==
    \/ /\ tr.kind = "PullRequest"
       /\ tr.action \in {"ReviewRequested", "ReviewRequestRemoved", "ReadyForReview"}
       /\ reviews_listed(pl, config, NoReview)
    \/ /\ tr.kind = "Review"
       /\ reviews_listed(pl, config, [action |-> tr.action, state |-> tr.state])

\* Whether the handler of the trigger queries the statuses of the head commit.
trigger_queries_statuses(config, tr) ==
    tr.kind = "Status" /\ statuses_queried(config, tr.context)

\* get_pull_requests: a status event of a check that is not required selects
\* no PR.
selects_pr(config, tr) ==
    tr.kind = "Status" => tr.context \in Range(config.required_statuses)

\* The early returns of process_pr: draft and closed PRs are ignored.
skips_pr(pl) == pl.draft \/ pl.state = "Closed"

\* process_pr without its exception for status events: a status event that
\* completes the labels queues the merge.
finish_pr_queues_on_status(pl, config, tr, ms, add_ok, queue_ok) ==
    LET changes == label_changes(ms, config)
        added == add_labels(pl.labels, changes[1], add_ok)
    IN  IF added.result = "Err"
        THEN [labels |-> added.labels, calls |-> added.calls, result |-> "Err"]
        ELSE LET removed == remove_labels(added.labels, changes[2])
                 calls_ == added.calls \o removed.calls
             IN  IF get_mergeable_state(removed.labels, config)
                 THEN [labels |-> removed.labels,
                       calls |-> Append(calls_, Call("queue", << >>)),
                       result |-> IF queue_ok THEN "Ok" ELSE "Err"]
                 ELSE [labels |-> removed.labels, calls |-> calls_, result |-> "Ok"]

\* Lines 411-472 of process_pr: the label calls and the merge decision for a
\* MergeState. add_ok: the add_labels call succeeds; queue_ok: merge::queue
\* returns Ok.
finish_pr(pl, config, tr, ms, add_ok, queue_ok) ==
    LET changes == label_changes(ms, config)
        added == add_labels(pl.labels, changes[1], add_ok)
    IN  IF added.result = "Err"
        THEN [labels |-> added.labels, calls |-> added.calls, result |-> "Err"]
        ELSE LET removed == remove_labels(added.labels, changes[2])
                 calls_ == added.calls \o removed.calls
             IN  IF tr.kind # "Status" /\ get_mergeable_state(removed.labels, config)
                 THEN [labels |-> removed.labels,
                       calls |-> Append(calls_, Call("queue", << >>)),
                       result |-> IF queue_ok THEN "Ok" ELSE "Err"]
                 ELSE [labels |-> removed.labels, calls |-> calls_, result |-> "Ok"]

(***************************************************************************)
(* State.                                                                  *)
(***************************************************************************)
VARIABLES
    author,          \* Reviews.author
    comment_effect,  \* Reviews.comment_effect
    review_by_nick,  \* Reviews.review_by_nick
    history,         \* the reviews recorded so far, oldest first
    mode,            \* what runs: "ledger", the "poll" pass of the Analyzer, or
                     \* the pass for an "event"
    pc,              \* the position of the pass: "start", "paging", "done"
    now,             \* Utc::now()
    pull,            \* the platform's PullRequest the pass starts from
    cfg,             \* the configuration of the pass
    statuses,        \* the statuses the platform returned (empty until fetched)
    reviews,         \* the reviews the platform returned (empty until fetched)
    fetches,         \* the fetches made, in order
    result,          \* None while running, then "Ok" or "Err"
    actions,         \* the Actions returned (None: none)
    previous,        \* the Actions an earlier call on the same Analyzer returned
    trigger,         \* the EventTrigger of the event pass (None before it runs)
    reviews_next,    \* whether a listed page of reviews names a next page
    merge_state,     \* the MergeState of process_pr
    labels,          \* the label list process_pr tracks
    calls,           \* the calls made that change the PR, in order
    platform,        \* the PR as the platform holds it while merge::queue runs
    fetched,         \* the PR the last prh.get of merge::queue returned
    retry_count,     \* retry_count of merge::queue
    queue_log        \* what merge::queue did, in order: gets, sleeps, merge calls

ledgerVars == <<author, comment_effect, review_by_nick, history>>
passVars == <<mode, now, pull, cfg>>
pollVars == <<actions, previous>>
eventVars == <<trigger, reviews_next, merge_state, labels, calls>>
prVars == <<passVars, pc, statuses, reviews, fetches, result, pollVars, eventVars>>
queueVars == <<platform, fetched, retry_count, queue_log>>
vars == <<ledgerVars, prVars, queueVars>>

\* No ledger runs.
NoLedger ==
    /\ author = None
    /\ comment_effect = None
    /\ review_by_nick = EmptyMap
    /\ history = << >>

\* No event is processed.
NoEvent ==
    /\ trigger = None
    /\ reviews_next = FALSE
    /\ merge_state = NoMergeState
    /\ labels = << >>
    /\ calls = << >>

\* merge::queue does not run.
NoQueue ==
    /\ platform = None
    /\ fetched = None
    /\ retry_count = 0
    /\ queue_log = << >>

\* No PR pass runs.
NoPr ==
    /\ mode = "ledger"
    /\ pc = None
    /\ now = 0
    /\ pull = None
    /\ cfg = None
    /\ statuses = EmptyMap
    /\ reviews = << >>
    /\ fetches = << >>
    /\ result = None
    /\ actions = None
    /\ previous = None
    /\ NoQueue
    /\ NoEvent

(***************************************************************************)
(* Spec: the review ledger.                                                *)
(***************************************************************************)
\* Reviews::new(author, comment_effect)
Init ==
    /\ author \in Authors
    /\ comment_effect \in CommentEffect
    /\ review_by_nick = EmptyMap
    /\ history = << >>
    /\ NoPr

\* One iteration of record_reviews: self.record(review).
Record ==
    /\ mode = "ledger"
    /\ Len(history) < MaxReviews
    /\ \E review \in Review :
          /\ review_by_nick' = record(review_by_nick, author, comment_effect, review)
          /\ history' = Append(history, review)
    /\ UNCHANGED <<author, comment_effect, prVars, queueVars>>

Next == Record

Spec == Init /\ [][Next]_vars

(***************************************************************************)
(* SpecPr: one pass over one PR.                                           *)
(***************************************************************************)
\* A failed platform call.
Err == "Err"

\* The time of the pass.
Clock == 3 * InactiveMinutes * SecondsPerMinute

\* The review lists the platform returns for a PR.
ReviewLists == SeqsUpTo(PrReview, MaxPrReviews)

\* The PRs a polling pass meets: updated exactly an hour ago or a second
\* earlier, or never updated since its creation over an hour ago.
PollPulls ==
    [ draft : BOOLEAN,
      state : IssueState,
      updated_at : {NoTime, Clock - InactiveMinutes * SecondsPerMinute,
                    Clock - InactiveMinutes * SecondsPerMinute - 1},
      created_at : {Clock - InactiveMinutes * SecondsPerMinute - 1},
      body : {None, "", "text"},
      labels : {<< >>, <<BlockMergeLabel>>},
      requested_reviewers : {<< >>},
      head_sha : {"somesha"} ]

\* Analyzer::new on a PR of the repository.
InitPoll ==
    /\ NoLedger
    /\ mode = "poll"
    /\ pc = "start"
    /\ now = Clock
    /\ pull \in PollPulls
    /\ cfg \in Configs
    /\ statuses = EmptyMap
    /\ reviews = << >>
    /\ fetches = << >>
    /\ result = None
    /\ actions = None
    /\ previous = None
    /\ NoQueue
    /\ NoEvent

\* Analyzer::required_actions: the early returns, then the fetch of the
\* statuses, the fetch of the reviews (each may fail and end the pass with
\* the error), and the decision.
RequiredActions ==
    /\ mode = "poll"
    /\ pc = "start"
    /\ pc' = "done"
    /\ LET p == from_octocrab_pull_request(pull)
       IN  IF nothing_to_do(p, now)
           THEN /\ result' = "Ok"
                /\ actions' = noop
                /\ UNCHANGED <<statuses, reviews, fetches>>
           ELSE \/ /\ fetches' = <<"statuses">>
                   /\ result' = Err
                   /\ actions' = None
                   /\ UNCHANGED <<statuses, reviews>>
                \/ \E st \in StatusMaps :
                      /\ statuses' = st
                      /\ fetches' = <<"statuses", "reviews">>
                      /\ \/ /\ result' = Err
                            /\ actions' = None
                            /\ UNCHANGED reviews
                         \/ \E rv \in ReviewLists :
                               /\ reviews' = rv
                               /\ result' = "Ok"
                               /\ actions' = decide(cfg, p,
                                                pr_statuses_passed(cfg, st),
                                                pr_approved(cfg, rv))
    /\ UNCHANGED <<queueVars, ledgerVars, passVars, eventVars, previous>>

\* The label lists a PR carries when an event arrives.
AllLabels == <<BlockMergeLabel, NeedsDescriptionLabel, ReviewedLabel, CiPassedLabel>>
LabelLists ==
    LET kept(S) == LET in_S(l) == l \in S IN SelectSeq(AllLabels, in_S)
    IN  {kept(S) : S \in SUBSET Range(AllLabels)}

\* The listings of reviews an event pass gets: one page.
ListedReviews == SeqsUpTo(PrReview, MaxListedReviews)

\* The configuration of tests.rs make_context, with one required status.
FullConfig ==
    [ reviewed_label |-> ReviewedLabel,
      needs_description_label |-> NeedsDescriptionLabel,
      ci_passed_label |-> CiPassedLabel,
      block_merge_label |-> BlockMergeLabel,
      required_statuses |-> <<"status1">> ]

\* The configurations of an event pass: FullConfig and the configurations
\* that differ from it in one field.
EventConfigs ==
    {c \in Configs : Cardinality({f \in DOMAIN c : c[f] # FullConfig[f]}) <= 1}

\* The PRs an event is about.
EventPulls ==
    [ draft : BOOLEAN,
      state : IssueState,
      updated_at : {Clock},
      created_at : {Clock},
      body : {None, "", "text"},
      labels : LabelLists,
      requested_reviewers : {<< >>, <<1>>},
      head_sha : {"somesha"} ]

\* process_event is handed an event about a PR; paginated: whether the
\* reviews of the PR fill more than one page.
InitEventOn(paginated) ==
    /\ NoLedger
    /\ mode = "event"
    /\ pc = "start"
    /\ now = Clock
    /\ pull \in EventPulls
    /\ cfg \in EventConfigs
    /\ statuses = EmptyMap
    /\ reviews = << >>
    /\ fetches = << >>
    /\ result = None
    /\ actions = None
    /\ previous = None
    /\ NoQueue
    /\ trigger = None
    /\ reviews_next = paginated
    /\ merge_state = NoMergeState
    /\ labels = pull.labels
    /\ calls = << >>

\* An event about a PR whose reviews are listed on one page.
InitEvent == InitEventOn(FALSE)

\* The end of process_pr once the handler of the trigger returned ms.
FinishPr(tr, ms) ==
    \E add_ok \in BOOLEAN, queue_ok \in BOOLEAN :
        LET r == finish_pr(pull, cfg, tr, ms, add_ok, queue_ok)
        IN  /\ merge_state' = ms
            /\ labels' = r.labels
            /\ calls' = r.calls
            /\ result' = r.result
            /\ pc' = "done"

\* process_event for one event about the PR: get_pull_requests (a status
\* event of a required check lists the open PRs of its branches, which may
\* fail), then process_pr up to its return, or up to the page loop of
\* on_review_state_event when the listed page (a full page) names a next
\* page.
ProcessEvent ==
    /\ mode = "event"
    /\ pc = "start"
    /\ \E tr \in Triggers :
          LET listed == IF tr.kind = "Status" THEN <<"pulls">> ELSE << >>
          IN
          /\ trigger' = tr
          /\ IF ~selects_pr(cfg, tr)
             THEN /\ result' = "Ok"
                  /\ pc' = "done"
                  /\ UNCHANGED <<statuses, reviews, fetches, merge_state, labels, calls>>
             ELSE
             \/ /\ tr.kind = "Status"
                /\ fetches' = listed
                /\ result' = Err
                /\ pc' = "done"
                /\ UNCHANGED <<statuses, reviews, merge_state, labels, calls>>
             \/ IF skips_pr(pull)
                THEN /\ fetches' = listed
                     /\ result' = "Ok"
                     /\ pc' = "done"
                     /\ UNCHANGED <<statuses, reviews, merge_state, labels, calls>>
                ELSE IF trigger_lists_reviews(pull, cfg, tr)
                THEN \/ /\ fetches' = Append(listed, "reviews")
                        /\ result' = Err
                        /\ pc' = "done"
                        /\ UNCHANGED <<statuses, reviews, merge_state, labels, calls>>
                     \/ \E items \in ListedReviews :
                           /\ reviews_next => Len(items) = MaxListedReviews
                           /\ fetches' = Append(listed, "reviews")
                           /\ reviews' = items
                           /\ UNCHANGED statuses
                           /\ IF reviews_next
                              THEN /\ pc' = "paging"
                                   /\ UNCHANGED <<result, merge_state, labels, calls>>
                              ELSE FinishPr(tr, handle_trigger(pull, cfg, tr, items,
                                                               EmptyMap))
                ELSE IF trigger_queries_statuses(cfg, tr)
                THEN \/ /\ fetches' = Append(listed, "statuses")
                        /\ result' = Err
                        /\ pc' = "done"
                        /\ UNCHANGED <<statuses, reviews, merge_state, labels, calls>>
                     \/ \E combined \in StatusMaps :
                           /\ fetches' = Append(listed, "statuses")
                           /\ statuses' = combined
                           /\ UNCHANGED reviews
                           /\ FinishPr(tr, handle_trigger(pull, cfg, tr, << >>, combined))
                ELSE /\ fetches' = listed
                     /\ UNCHANGED <<statuses, reviews>>
                     /\ FinishPr(tr, handle_trigger(pull, cfg, tr, << >>, EmptyMap))
    /\ UNCHANGED <<queueVars, ledgerVars, passVars, pollVars, reviews_next>>

\* One turn of the page loop of on_review_state_event: get_page(&reviews.next)
\* fails and ends the pass, or returns the page reviews.next names, whose
\* reviews are inserted; reviews.next is the same on the next turn.
FetchPage ==
    /\ mode = "event"
    /\ pc = "paging"
    /\ Cardinality({i \in DOMAIN fetches : fetches[i] = "reviews.next"}) < MaxPageFetches
    /\ fetches' = Append(fetches, "reviews.next")
    /\ \/ /\ result' = Err
          /\ pc' = "done"
       \/ UNCHANGED <<result, pc>>
    /\ UNCHANGED <<queueVars, ledgerVars, passVars, pollVars, eventVars, statuses, reviews>>

NextPr ==
    \/ RequiredActions
    \/ ProcessEvent

SpecPr == (InitPoll \/ InitEvent) /\ [][NextPr]_vars

(***************************************************************************)
(* SpecPaging: the pass for one event on a PR with pages of reviews.       *)
(***************************************************************************)
\* An event about a PR whose reviews fill more than one page.
InitPaging == InitEventOn(TRUE)

NextPaging ==
    \/ ProcessEvent
    \/ FetchPage

SpecPaging == InitPaging /\ [][NextPaging]_vars

(***************************************************************************)
(* SpecRepo: the polling pass on the configurations and PRs of the         *)
(* repository configuration (context.rs RepoConfig) and of process/tests.rs.*)
(***************************************************************************)
\* The skip-review label of the tests.
TrivialReviewLabel == "trivial :)"

\* The grace period of make_context, in seconds, and "no grace period".
GracePeriod == 10
NoPeriod == 0 - 1

\* make_context: the PR was updated 50 seconds before the pass.
UpdatedSecondsAgo == 50

\* The RepoConfig of make_context.
MakeContextConfig ==
    [ reviewed_label |-> ReviewedLabel,
      needs_description_label |-> NeedsDescriptionLabel,
      ci_passed_label |-> CiPassedLabel,
      block_merge_label |-> BlockMergeLabel,
      required_statuses |-> <<"status1">>,
      automerge_grace_period |-> GracePeriod,
      trivial_review_label |-> None,
      comment_requests_change |-> FALSE ]

\* The PR of make_context, as the platform lists it.
MakeContextPull ==
    [ draft |-> FALSE,
      state |-> "Open",
      updated_at |-> Clock - UpdatedSecondsAgo,
      created_at |-> Clock - UpdatedSecondsAgo,
      body |-> "text",
      labels |-> << >>,
      requested_reviewers |-> << >>,
      head_sha |-> "somesha" ]

\* The tests about label roles: each of the three roles configured or not,
\* on a PR with or without a description.
LabelRoleCases ==
    { [c |-> [MakeContextConfig EXCEPT !.reviewed_label = r,
                                       !.needs_description_label = n,
                                       !.ci_passed_label = ci],
       p |-> [MakeContextPull EXCEPT !.body = b]] :
        r \in {None, ReviewedLabel}, n \in {None, NeedsDescriptionLabel},
        ci \in {None, CiPassedLabel}, b \in {None, "text"} }

\* The tests about the grace period: configured or not, on a PR updated
\* after the pass began, this second, exactly the period ago, a second
\* earlier, or 50 seconds ago.
GraceCases ==
    { [c |-> [MakeContextConfig EXCEPT !.automerge_grace_period = g],
       p |-> [MakeContextPull EXCEPT !.updated_at = u]] :
        g \in {NoPeriod, GracePeriod},
        u \in {Clock + 1, Clock, Clock - GracePeriod, Clock - GracePeriod - 1,
               Clock - UpdatedSecondsAgo} }

\* The tests about required reviews: the reviewed label and the skip-review
\* label configured or not, the PR carrying the skip-review label or not,
\* with no, one or two requested reviewers pending.
ReviewCases ==
    { [c |-> [MakeContextConfig EXCEPT !.reviewed_label = r,
                                       !.trivial_review_label = t],
       p |-> [MakeContextPull EXCEPT !.labels = l,
                                     !.requested_reviewers = q]] :
        r \in {None, ReviewedLabel}, t \in {None, TrivialReviewLabel},
        l \in {<< >>, <<TrivialReviewLabel>>},
        q \in {<< >>, <<1>>, <<1, 2>>} }

RepoCases == LabelRoleCases \cup GraceCases \cup ReviewCases

\* Analyzer::new on a PR and a RepoConfig of the cases above.
InitRepo ==
    /\ NoLedger
    /\ mode = "poll"
    /\ pc = "start"
    /\ now = Clock
    /\ \E case \in RepoCases :
          /\ pull = case.p
          /\ cfg = case.c
    /\ statuses = EmptyMap
    /\ reviews = << >>
    /\ fetches = << >>
    /\ result = None
    /\ actions = None
    /\ previous = None
    /\ NoQueue
    /\ NoEvent

NextRepo == RequiredActions

SpecRepo == InitRepo /\ [][NextRepo]_vars

(***************************************************************************)
(* SpecTwice: two calls of required_actions on one Analyzer, the PR, its   *)
(* reviews and its statuses unchanged, while time passes.                  *)
(***************************************************************************)
\* The seconds that pass after the first call.
MaxElapsed == 2

\* The PR of make_context, a draft or not, updated a second less than an
\* hour, an hour, or a second more than an hour before the first call.
TwicePulls ==
    { [MakeContextPull EXCEPT !.draft = d, !.updated_at = u] :
        d \in BOOLEAN,
        u \in {Clock - InactiveMinutes * SecondsPerMinute + 1,
               Clock - InactiveMinutes * SecondsPerMinute,
               Clock - InactiveMinutes * SecondsPerMinute - 1} }

\* Analyzer::new with the configuration of make_context.
InitTwice ==
    /\ NoLedger
    /\ mode = "poll"
    /\ pc = "start"
    /\ now = Clock
    /\ pull \in TwicePulls
    /\ cfg = MakeContextConfig
    /\ statuses = EmptyMap
    /\ reviews = << >>
    /\ fetches = << >>
    /\ result = None
    /\ actions = None
    /\ previous = None
    /\ NoQueue
    /\ NoEvent

\* A second passes after the first call returned.
Tick ==
    /\ mode = "poll"
    /\ pc = "done"
    /\ now < Clock + MaxElapsed
    /\ now' = now + 1
    /\ UNCHANGED <<queueVars, ledgerVars, mode, pull, cfg, pc, statuses, reviews, fetches,
                   result, pollVars, eventVars>>

\* Analyzer::required_actions called again on the Analyzer whose first call
\* returned Actions: it reads the clock again and fetches again, and the
\* platform returns the statuses and the reviews it returned before.
RequiredActionsAgain ==
    /\ mode = "poll"
    /\ pc = "done"
    /\ result = "Ok"
    /\ pc' = "again"
    /\ previous' = actions
    /\ LET p == from_octocrab_pull_request(pull)
       IN  IF nothing_to_do(p, now)
           THEN /\ result' = "Ok"
                /\ actions' = noop
                /\ UNCHANGED fetches
           ELSE \/ /\ fetches' = fetches \o <<"statuses">>
                   /\ result' = Err
                   /\ actions' = None
                \/ /\ fetches' = fetches \o <<"statuses", "reviews">>
                   /\ \/ /\ result' = Err
                         /\ actions' = None
                      \/ /\ result' = "Ok"
                         /\ actions' = decide(cfg, p,
                                          pr_statuses_passed(cfg, statuses),
                                          pr_approved(cfg, reviews))
    /\ UNCHANGED <<queueVars, ledgerVars, passVars, eventVars, statuses, reviews>>

NextTwice ==
    \/ RequiredActions
    \/ Tick
    \/ RequiredActionsAgain

SpecTwice == InitTwice /\ [][NextTwice]_vars

(***************************************************************************)
(* merge.rs: queue.                                                        *)
(***************************************************************************)
\* octocrab's MergeableState as matched in queue, and a state the match does
\* not name (the enum is open).
MergeableState ==
    {"Behind", "Blocked", "Clean", "Dirty", "Draft", "HasHooks", "Unknown",
     "Unstable"}
OtherMergeableState == "Other"

\* What prh.get may report as pr.mergeable_state (None: absent).
MergeableAnswers == MergeableState \cup {OtherMergeableState, None}

\* context::MergeMethod
MergeMethod == {"Merge", "Squash", "Rebase"}

\* while retry_count < 3, and the sleep of 10 seconds.
MaxRetries == 3
RetrySleepSeconds == 10

\* Mutant of loop_continues: one more round.
loop_continues_once_more(count) == count <= MaxRetries

\* The condition of the while loop of queue.
loop_continues(count) == count < MaxRetries

\* Mutant of on_mergeable_state: a PR that is behind its base is polled again.
on_mergeable_state_retries_behind(ms) ==
    IF ms \in {"Unknown", None, "Behind"} THEN "retry"
    ELSE IF ms \in {"Draft", "Dirty", "Blocked"} THEN "abort"
    ELSE IF ms \in {"Clean", "HasHooks", "Unstable"} THEN "merge"
    ELSE "ignore"

\* Mutant of on_mergeable_state: a blocked PR is merged.
on_mergeable_state_merges_blocked(ms) ==
    IF ms \in {"Unknown", None} THEN "retry"
    ELSE IF ms \in {"Draft", "Behind", "Dirty"} THEN "abort"
    ELSE IF ms \in {"Clean", "HasHooks", "Unstable", "Blocked"} THEN "merge"
    ELSE "ignore"

\* The match on pr.mergeable_state: poll again, give up with an abort
\* reason, merge, or return on a state the match does not name.
on_mergeable_state(ms) ==
    IF ms \in {"Unknown", None} THEN "retry"
    ELSE IF ms \in {"Draft", "Behind", "Dirty", "Blocked"} THEN "abort"
    ELSE IF ms \in {"Clean", "HasHooks", "Unstable"} THEN "merge"
    ELSE "ignore"

\* format!("{} (#{})", pr.title, pr_number)
merge_title(title, number) == title \o " (#" \o ToString(number) \o ")"

\* The merge request queue builds from the PR it fetched.
merge_request(pr, pr_number, config) ==
    [ title |-> merge_title(pr.title, pr_number),
      sha |-> pr.head_sha,
      method |-> config.merge_method ]

\* Mutant of after_send: a rejected merge is polled for again.
after_send_retries(accepted) == IF accepted THEN "returned" ELSE "get"

\* Where queue goes after merge.send(): a success is logged, a failure
\* becomes the abort reason that is logged, and both fall through to
\* return Ok(()).
after_send(accepted) == "returned"

\* An entry of the log of queue.
Did(op, answer) == [op |-> op, answer |-> answer]

(***************************************************************************)
(* merge.rs: remove_html_comments and format_commit_message.  A text is a  *)
(* sequence of characters.                                                 *)
(***************************************************************************)
\* "<!--" and "-->"
CommentOpen == <<"<", "!", "-", "-">>
CommentClose == <<"-", "-", ">">>

\* What str::find returns when the pattern does not occur.
NotFound == 0 - 1

\* str::find: the byte offset of the first occurrence of pat in s.
find(s, pat) ==
    LET hits == {i \in 0..(Len(s) - Len(pat)) : SubSeq(s, i + 1, i + Len(pat)) = pat}
    IN  IF hits = {} THEN NotFound
        ELSE CHOOSE i \in hits : \A j \in hits : i <= j

\* &s[from..to] and &s[from..]
slice(s, from, to) == SubSeq(s, from + 1, to)
slice_from(s, from) == SubSeq(s, from + 1, Len(s))

\* Mutant of scan_comments: the text behind a comment without an end is kept.
RECURSIVE scan_comments_keeps_tail(_, _, _)
scan_comments_keeps_tail(body, haystack, result_) ==
    LET start == find(haystack, CommentOpen)
    IN  IF start = NotFound
        THEN [status |-> "stripped", text |-> result_ \o haystack]
        ELSE LET kept == result_ \o slice(haystack, 0, start)
                 found == find(slice_from(haystack, start), CommentClose)
                 end == found + start
             IN  IF found = NotFound
                 THEN [status |-> "stripped", text |-> kept \o slice_from(haystack, start)]
                 ELSE IF start + Len(CommentOpen) > end
                 THEN [status |-> "panic", text |-> << >>]
                 ELSE IF find(slice(haystack, start + Len(CommentOpen), end),
                              CommentOpen) # NotFound
                 THEN [status |-> "embedded", text |-> body]
                 ELSE scan_comments_keeps_tail(body,
                          slice_from(haystack, end + Len(CommentClose)), kept)

\* Mutant of scan_comments: a comment without an end returns the body.
RECURSIVE scan_comments_unfinished_returns_body(_, _, _)
scan_comments_unfinished_returns_body(body, haystack, result_) ==
    LET start == find(haystack, CommentOpen)
    IN  IF start = NotFound
        THEN [status |-> "stripped", text |-> result_ \o haystack]
        ELSE LET kept == result_ \o slice(haystack, 0, start)
                 found == find(slice_from(haystack, start), CommentClose)
                 end == found + start
             IN  IF found = NotFound
                 THEN [status |-> "embedded", text |-> body]
                 ELSE IF start + Len(CommentOpen) > end
                 THEN [status |-> "panic", text |-> << >>]
                 ELSE IF find(slice(haystack, start + Len(CommentOpen), end),
                              CommentOpen) # NotFound
                 THEN [status |-> "embedded", text |-> body]
                 ELSE scan_comments_unfinished_returns_body(body,
                          slice_from(haystack, end + Len(CommentClose)), kept)

\* Mutant of scan_comments: embedded comments are not looked for.
RECURSIVE scan_comments_no_embedded_check(_, _, _)
scan_comments_no_embedded_check(body, haystack, result_) ==
    LET start == find(haystack, CommentOpen)
    IN  IF start = NotFound
        THEN [status |-> "stripped", text |-> result_ \o haystack]
        ELSE LET kept == result_ \o slice(haystack, 0, start)
                 found == find(slice_from(haystack, start), CommentClose)
                 end == found + start
             IN  IF found = NotFound
                 THEN [status |-> "stripped", text |-> kept]
                 ELSE IF start + Len(CommentOpen) > end
                 THEN [status |-> "panic", text |-> << >>]
                 ELSE scan_comments_no_embedded_check(body,
                          slice_from(haystack, end + Len(CommentClose)), kept)

\* The while loop of remove_html_comments and the if that follows it: the
\* text outside the comments ("stripped"), the early return of the body on an
\* embedded comment ("embedded"), or the panic of the slice
\* haystack[(start + 4)..end] when the "-->" found begins inside the "<!--".
RECURSIVE scan_comments(_, _, _)
scan_comments(body, haystack, result_) ==
    LET start == find(haystack, CommentOpen)
    IN  IF start = NotFound
        THEN [status |-> "stripped", text |-> result_ \o haystack]
        ELSE LET kept == result_ \o slice(haystack, 0, start)
                 found == find(slice_from(haystack, start), CommentClose)
                 end == found + start
             IN  IF found = NotFound
                 THEN [status |-> "stripped", text |-> kept]
                 ELSE IF start + Len(CommentOpen) > end
                 THEN [status |-> "panic", text |-> << >>]
                 ELSE IF find(slice(haystack, start + Len(CommentOpen), end),
                              CommentOpen) # NotFound
                 THEN [status |-> "embedded", text |-> body]
                 ELSE scan_comments(body,
                          slice_from(haystack, end + Len(CommentClose)), kept)

\* char::is_whitespace on the characters of the model.
is_whitespace(c) == c \in {" ", "\n"}

\* str::trim
RECURSIVE trim_start(_)
trim_start(s) ==
    IF s # << >> /\ is_whitespace(Head(s)) THEN trim_start(Tail(s)) ELSE s
RECURSIVE trim_end(_)
trim_end(s) ==
    IF s # << >> /\ is_whitespace(s[Len(s)])
    THEN trim_end(SubSeq(s, 1, Len(s) - 1)) ELSE s
trim(s) == trim_end(trim_start(s))

\* str::split('\n'): the lines of s, at least one.
RECURSIVE split_lines(_)
split_lines(s) ==
    LET at == find(s, <<"\n">>)
    IN  IF at = NotFound THEN <<s>>
        ELSE <<slice(s, 0, at)>> \o split_lines(slice_from(s, at + 1))

\* line.split_whitespace().collect::<Vec<_>>().join(" ")
RECURSIVE squeeze(_)
squeeze(line) ==
    LET t == trim_start(line)
        word == CHOOSE n \in 0..Len(t) :
                   /\ \A i \in 1..n : ~is_whitespace(t[i])
                   /\ n < Len(t) => is_whitespace(t[n + 1])
        rest == squeeze(slice_from(t, word))
    IN  IF t = << >> THEN << >>
        ELSE IF rest = << >> THEN slice(t, 0, word)
        ELSE slice(t, 0, word) \o <<" ">> \o rest

\* The loop over the lines: a blank line that follows a blank line is
\* dropped.
RECURSIVE drop_repeated_blank_lines(_, _)
drop_repeated_blank_lines(lines, prev_was_empty) ==
    IF lines = << >> THEN << >>
    ELSE IF trim(Head(lines)) = << >>
    THEN IF prev_was_empty
         THEN drop_repeated_blank_lines(Tail(lines), TRUE)
         ELSE <<Head(lines)>> \o drop_repeated_blank_lines(Tail(lines), TRUE)
    ELSE <<Head(lines)>> \o drop_repeated_blank_lines(Tail(lines), FALSE)

\* [String]::join("\n")
RECURSIVE join_lines(_)
join_lines(lines) ==
    IF lines = << >> THEN << >>
    ELSE IF Len(lines) = 1 THEN Head(lines)
    ELSE Head(lines) \o <<"\n">> \o join_lines(Tail(lines))

\* Mutant of normalize_whitespace: blank lines are not collapsed.
normalize_whitespace_keeps_blank_lines(text) ==
    join_lines([i \in DOMAIN split_lines(trim(text)) |->
                   squeeze(split_lines(trim(text))[i])])

\* Lines 29-51 of remove_html_comments: the whitespace of the result.
normalize_whitespace(text) ==
    LET lines == split_lines(trim(text))
        squeezed == [i \in DOMAIN lines |-> squeeze(lines[i])]
    IN  join_lines(drop_repeated_blank_lines(squeezed, FALSE))

\* remove_html_comments: the text returned, or the panic.
remove_html_comments(body) ==
    LET scanned == scan_comments(body, body, << >>)
    IN  IF scanned.status = "stripped"
        THEN [status |-> "stripped", text |-> normalize_whitespace(scanned.text)]
        ELSE scanned

\* format!("{}\n\n{}", body, html_url)
format_commit_message(body, html_url) ==
    LET removed == remove_html_comments(body)
    IN  IF removed.status = "panic" THEN removed
        ELSE [status |-> removed.status,
              text |-> removed.text \o <<"\n", "\n">> \o html_url]

(***************************************************************************)
(* SpecQueue: RepoProcessor::apply calls merge::queue for a PR the         *)
(* Analyzer decided to merge, while users push commits and add labels.     *)
(***************************************************************************)
\* The pushes users make while queue runs.
MaxPushes == 1

\* The head commits of the PR: the one the Analyzer evaluated, then the ones
\* pushed.
HeadAfter(pushes) == IF pushes = 0 THEN "somesha" ELSE "pushed" \o ToString(pushes)

\* The PR numbers and the title of the PRs queued.
PrNumbers == {1, 12}
PrTitle == "Fix the thing"

\* The PRs the pass listed and the Analyzer decided to merge: open, active,
\* described, without the block-merge label.
QueuedPulls ==
    { [ draft |-> FALSE,
        state |-> "Open",
        updated_at |-> Clock - UpdatedSecondsAgo,
        created_at |-> Clock - UpdatedSecondsAgo,
        body |-> "text",
        labels |-> << >>,
        requested_reviewers |-> << >>,
        head_sha |-> HeadAfter(0),
        number |-> n,
        title |-> PrTitle ] : n \in PrNumbers }

\* The configurations: a block-merge label configured or not, each merge
\* method.
QueueConfigs ==
    { [ reviewed_label |-> ReviewedLabel,
        needs_description_label |-> NeedsDescriptionLabel,
        ci_passed_label |-> CiPassedLabel,
        block_merge_label |-> b,
        required_statuses |-> <<"status1">>,
        merge_method |-> m ] : b \in {None, BlockMergeLabel}, m \in MergeMethod }

\* RepoProcessor::apply reached merge::queue: the Analyzer returned merge =
\* true for the snapshot of the PR as listed, and the platform holds the PR
\* as listed.
InitQueue ==
    /\ NoLedger
    /\ mode = "queue"
    /\ pc = "get"
    /\ now = Clock
    /\ pull \in QueuedPulls
    /\ cfg \in QueueConfigs
    /\ statuses = [c \in {"status1"} |-> "Success"]
    /\ reviews = <<[user_id |-> 1, state |-> "Approved"]>>
    /\ fetches = <<"statuses", "reviews">>
    /\ result = None
    /\ actions = decide(cfg, from_octocrab_pull_request(pull),
                        pr_statuses_passed(cfg, statuses),
                        pr_approved(cfg, reviews))
    /\ actions.merge
    /\ previous = None
    /\ NoEvent
    /\ platform = [head_sha |-> pull.head_sha, pushes |-> 0,
                   labels |-> pull.labels, title |-> pull.title,
                   merged |-> None]
    /\ fetched = NoneB
    /\ retry_count = 0
    /\ queue_log = << >>

queueFrame == <<ledgerVars, passVars, statuses, reviews, fetches, pollVars, eventVars>>

\* One round of the loop up to its next await: prh.get(pr.number).await?
\* and the match on the mergeable state of the PR it returned.
QueueGet ==
    /\ mode = "queue"
    /\ pc = "get"
    /\ \/ /\ queue_log' = Append(queue_log, Did("get", Err))
          /\ result' = Err
          /\ pc' = "returned"
          /\ UNCHANGED <<fetched, retry_count>>
       \/ \E ms \in MergeableAnswers :
             /\ queue_log' = Append(queue_log, Did("get", ms))
             /\ fetched' = [head_sha |-> platform.head_sha,
                            title |-> platform.title,
                            labels |-> platform.labels,
                            mergeable_state |-> ms]
             /\ CASE on_mergeable_state(ms) = "retry" ->
                       /\ retry_count' = retry_count + 1
                       /\ pc' = "sleep"
                       /\ UNCHANGED result
                  [] on_mergeable_state(ms) = "merge" ->
                       /\ pc' = "send"
                       /\ UNCHANGED <<retry_count, result>>
                  [] OTHER ->
                       /\ pc' = "returned"
                       /\ result' = "Ok"
                       /\ UNCHANGED retry_count
    /\ UNCHANGED <<queueFrame, platform>>

\* tokio::time::sleep(10 s), then continue: the loop condition is tested
\* again, and queue returns Ok(()) when it fails.
QueueSleep ==
    /\ mode = "queue"
    /\ pc = "sleep"
    /\ queue_log' = Append(queue_log, Did("sleep", ToString(RetrySleepSeconds)))
    /\ IF loop_continues(retry_count)
       THEN pc' = "get" /\ UNCHANGED result
       ELSE pc' = "returned" /\ result' = "Ok"
    /\ UNCHANGED <<queueFrame, platform, fetched, retry_count>>

\* merge.send().await: the platform merges the head the request names if it
\* still is the head of the PR, or rejects the call.
QueueSend ==
    /\ mode = "queue"
    /\ pc = "send"
    /\ LET request == merge_request(fetched, pull.number, cfg)
       IN  /\ calls' = Append(calls, Call("merge", request))
           /\ \E accepted \in BOOLEAN :
                 /\ accepted => request.sha = platform.head_sha
                 /\ platform' = IF accepted
                                THEN [platform EXCEPT !.merged = request.sha]
                                ELSE platform
                 /\ queue_log' = Append(queue_log,
                                   Did("merge", IF accepted THEN "Ok" ELSE Err))
                 /\ pc' = after_send(accepted)
                 /\ result' = IF after_send(accepted) = "returned" THEN "Ok" ELSE result
    /\ UNCHANGED <<ledgerVars, passVars, statuses, reviews, fetches, pollVars,
                   trigger, reviews_next, merge_state, labels, fetched, retry_count>>

\* A user pushes a commit to the PR while queue runs.
Push ==
    /\ mode = "queue"
    /\ pc # "returned"
    /\ platform.merged = None
    /\ platform.pushes < MaxPushes
    /\ platform' = [platform EXCEPT !.pushes = @ + 1,
                                    !.head_sha = HeadAfter(platform.pushes + 1)]
    /\ UNCHANGED <<queueFrame, pc, result, fetched, retry_count, queue_log>>

\* A user adds the configured block-merge label to the PR while queue runs.
AddBlockMergeLabel ==
    /\ mode = "queue"
    /\ pc # "returned"
    /\ platform.merged = None
    /\ cfg.block_merge_label # None
    /\ has_label(platform.labels, cfg.block_merge_label) = 0
    /\ platform' = [platform EXCEPT !.labels = Append(@, cfg.block_merge_label)]
    /\ UNCHANGED <<queueFrame, pc, result, fetched, retry_count, queue_log>>

NextQueue ==
    \/ QueueGet
    \/ QueueSleep
    \/ QueueSend
    \/ Push
    \/ AddBlockMergeLabel

SpecQueue == InitQueue /\ [][NextQueue]_vars

\* The runtime resumes queue once the await it is suspended on completes: the
\* platform answers the get or the merge call (or the call fails), and the
\* sleep elapses. Users need not push or label.
SpecQueueFair == SpecQueue /\ WF_vars(QueueGet \/ QueueSleep \/ QueueSend)

(***************************************************************************)
(* SpecMessage: merge::queue builds the commit message of the merge        *)
(* request from the body of the PR it fetched.                             *)
(***************************************************************************)
\* The pieces a PR body is written from, and the most pieces in a body.
Pieces ==
    {CommentOpen, CommentClose, <<"x">>, <<" ">>, <<"\n">>, <<"-">>, <<">">>}
MaxPieces == 4

\* The texts of up to n pieces.
RECURSIVE Texts(_)
Texts(n) ==
    IF n = 0 THEN {<< >>}
    ELSE LET shorter == Texts(n - 1)
         IN  shorter \cup {t \o p : t \in shorter, p \in Pieces}

\* The bodies of the tests of merge.rs, a word written as x.
TestBodies ==
    { <<"x", " ">> \o CommentOpen \o <<" ", "x", " ">> \o CommentClose \o <<" ", "x">>,
      <<"x", " ">> \o CommentOpen \o <<" ", "x">>,
      <<"x", " ">> \o CommentOpen \o <<" ", "x", " ">> \o CommentOpen
          \o <<" ", "x", " ">> \o CommentClose \o <<" ">> \o CommentClose,
      <<" ", "x", " ">> \o CommentOpen \o <<"x">> \o CommentClose \o <<" ", "x", " ">>
          \o CommentOpen \o <<"x">> \o CommentClose \o <<" ">> \o CommentOpen
          \o <<"x">> \o CommentClose \o <<"x", " ">>,
      CommentOpen \o <<"x">> \o CommentClose \o <<" ", "x", "\n", "\n">>
          \o CommentOpen \o <<"x">> \o CommentClose \o <<"\n", "\n", "x">>
          \o CommentOpen \o <<"\n", "\n", "x", "\n", "\n">> \o CommentClose,
      <<"x", "\n", "\n", "\n", "\n", "x", "\n", "\n", "x">> }

\* pr.html_url
HtmlUrl == <<"u">>

\* queue fetched a PR whose mergeable state lets it merge.
InitMessage ==
    /\ NoLedger
    /\ mode = "message"
    /\ pc = "send"
    /\ now = 0
    /\ pull = None
    /\ cfg = None
    /\ statuses = EmptyMap
    /\ reviews = << >>
    /\ fetches = << >>
    /\ result = None
    /\ actions = None
    /\ previous = None
    /\ NoEvent
    /\ platform = None
    /\ \E b \in {NoneB} \cup {SomeB(t) : t \in Texts(MaxPieces) \cup TestBodies} :
          fetched = [body |-> b, html_url |-> HtmlUrl]
    /\ retry_count = 0
    /\ queue_log = << >>

\* .message(match pr.body { Some(body) => format_commit_message(body, url),
\* None => url }): the message of the merge request, or the panic of
\* remove_html_comments.
BuildMessage ==
    /\ mode = "message"
    /\ pc = "send"
    /\ pc' = "returned"
    /\ LET formatted == format_commit_message(fetched.body[1], fetched.html_url)
       IN  IF fetched.body = NoneB
           THEN /\ queue_log' = Append(queue_log, Did("message", fetched.html_url))
                /\ result' = "Ok"
           ELSE IF formatted.status = "panic"
           THEN /\ result' = "Panic"
                /\ UNCHANGED queue_log
           ELSE /\ queue_log' = Append(queue_log, Did("message", formatted.text))
                /\ result' = "Ok"
    /\ UNCHANGED <<queueFrame, platform, fetched, retry_count>>

NextMessage == BuildMessage

SpecMessage == InitMessage /\ [][NextMessage]_vars

(***************************************************************************)
(* lib.rs: Octobors::process_all and RepoProcessor, with                   *)
(* Client::get_bot_nick of context.rs.  A repository's PRs are futures     *)
(* polled by try_join_all; each step below runs one future up to its next  *)
(* await.                                                                  *)
(***************************************************************************)
\* config.repos.len()
NumRepos == 2

\* The open PRs get_pull_requests returns for one repository.
PullsPerRepo == 2

\* The login the platform answers to current().user().
BotLogin == "octobors"

\* Client::new: bot_nick: RefCell::new(None). borrows is the number of
\* shared borrows of the cell that are outstanding; user_calls counts the
\* requests current().user() the platform received.
NewClient == [bot_nick |-> NoneB, borrows |-> 0, user_calls |-> 0]

\* get_bot_nick with the Ref of its lookup kept alive over the await.
borrows_held_at_await(borrows) == borrows + 1

\* The shared borrows outstanding when get_bot_nick reaches its await: the
\* Ref of the lookup is dropped at the end of its block.
borrows_at_await(borrows) == borrows

\* RefCell::borrow_mut panics while any borrow is outstanding.
borrow_mut_panics(borrows) == borrows # 0

\* The labels of a PR get_pull_requests returned.
BatchPrLabels == <<"old">>

\* The Actions required_actions returns: nothing to do, a blocked PR that is
\* told why, a PR to merge whose label changes are already in place, and all
\* of the fields at once.
BatchActions ==
    { [merge |-> FALSE, add_labels |-> << >>, remove_labels |-> << >>,
       post_comment |-> << >>],
      [merge |-> FALSE, add_labels |-> <<"blocked">>, remove_labels |-> <<"old">>,
       post_comment |-> <<"why">>],
      [merge |-> TRUE, add_labels |-> <<"old">>, remove_labels |-> <<"absent">>,
       post_comment |-> << >>],
      [merge |-> TRUE, add_labels |-> <<"blocked">>, remove_labels |-> <<"old">>,
       post_comment |-> <<"why">>] }

\* process_pr with a dry_run that is never read: the actions are applied.
process_pr_applies(config) == "remove"

\* process_pr after required_actions: the dry run logs the actions and
\* returns, any other run goes on into apply.
process_pr_after_analysis(config) ==
    IF config.dry_run THEN "done" ELSE "remove"

\* The future of process_pr(pr) before its first poll.
NewFuture ==
    [pc |-> "nick", nick |-> None, actions |-> None, labels |-> BatchPrLabels,
     calls |-> << >>]

\* process_all is about to process repository 1.
InitBatch ==
    /\ NoLedger
    /\ mode = "batch"
    /\ pc = "list"
    /\ now = 0
    /\ pull = None
    /\ cfg \in {[dry_run |-> d] : d \in BOOLEAN}
    /\ statuses = EmptyMap
    /\ reviews = << >>
    /\ fetches = << >>
    /\ result = None
    /\ actions = None
    /\ previous = None
    /\ NoEvent
    /\ platform = NewClient
    /\ fetched = [repo |-> 1, futures |-> << >>]
    /\ retry_count = 0
    /\ queue_log = << >>

batchFrame == <<queueFrame, retry_count, queue_log>>

\* The `?` of a future, of try_join_all and of process_all: the future of PR
\* p fails, try_join_all returns its error and drops the other futures where
\* they stand, process and process_all return the error.
FailBatch(p) ==
    /\ fetched' = [fetched EXCEPT !.futures[p].pc = "failed"]
    /\ pc' = "returned"
    /\ result' = Err

\* RepoProcessor::process up to try_join_all:
\* client.get_pull_requests(&repo.name).await?
ListPulls ==
    /\ mode = "batch"
    /\ pc = "list"
    /\ \/ /\ pc' = "returned"
          /\ result' = Err
          /\ UNCHANGED fetched
       \/ /\ pc' = "join"
          /\ fetched' = [fetched EXCEPT !.futures = [p \in 1..PullsPerRepo |-> NewFuture]]
          /\ UNCHANGED result
    /\ UNCHANGED <<batchFrame, platform>>

\* get_bot_nick up to its await: the cached nick is returned, or
\* current().user() is requested.
GetBotNick(p) ==
    /\ mode = "batch"
    /\ pc = "join"
    /\ fetched.futures[p].pc = "nick"
    /\ IF platform.bot_nick # NoneB
       THEN /\ fetched' = [fetched EXCEPT !.futures[p].nick = platform.bot_nick[1],
                                          !.futures[p].pc = "analyze"]
            /\ UNCHANGED platform
       ELSE /\ fetched' = [fetched EXCEPT !.futures[p].pc = "user"]
            /\ platform' = [platform EXCEPT !.user_calls = @ + 1,
                                            !.borrows = borrows_at_await(@)]
    /\ UNCHANGED <<batchFrame, pc, result>>

\* get_bot_nick after its await: the error is returned, or the login is
\* stored in bot_nick through borrow_mut (which panics on a cell that is
\* borrowed) and returned.
StoreBotNick(p) ==
    /\ mode = "batch"
    /\ pc = "join"
    /\ fetched.futures[p].pc = "user"
    /\ \/ /\ FailBatch(p)
          /\ UNCHANGED platform
       \/ IF borrow_mut_panics(platform.borrows)
          THEN /\ fetched' = [fetched EXCEPT !.futures[p].pc = "panicked"]
               /\ pc' = "returned"
               /\ result' = "Panic"
               /\ UNCHANGED platform
          ELSE /\ platform' = [platform EXCEPT !.bot_nick = SomeB(BotLogin)]
               /\ fetched' = [fetched EXCEPT !.futures[p].nick = BotLogin,
                                             !.futures[p].pc = "analyze"]
               /\ UNCHANGED <<pc, result>>
    /\ UNCHANGED batchFrame

\* process_pr: required_actions().await? and the branch on dry_run.
Analyze(p) ==
    /\ mode = "batch"
    /\ pc = "join"
    /\ fetched.futures[p].pc = "analyze"
    /\ \/ FailBatch(p)
       \/ /\ \E a \in BatchActions :
                fetched' = [fetched EXCEPT !.futures[p].actions = a,
                                           !.futures[p].pc = process_pr_after_analysis(cfg)]
          /\ UNCHANGED <<pc, result>>
    /\ UNCHANGED <<batchFrame, platform>>

\* apply: process::remove_labels(...).await?
ApplyRemoveLabels(p) ==
    /\ mode = "batch"
    /\ pc = "join"
    /\ fetched.futures[p].pc = "remove"
    /\ LET f == fetched.futures[p]
           removed == remove_labels(f.labels, f.actions.remove_labels)
       IN  fetched' = [fetched EXCEPT !.futures[p].labels = removed.labels,
                                      !.futures[p].calls = f.calls \o removed.calls,
                                      !.futures[p].pc = "add"]
    /\ UNCHANGED <<batchFrame, platform, pc, result>>

\* apply: process::add_labels(...).await?
ApplyAddLabels(p) ==
    /\ mode = "batch"
    /\ pc = "join"
    /\ fetched.futures[p].pc = "add"
    /\ \E ok \in BOOLEAN :
          LET f == fetched.futures[p]
              added == add_labels(f.labels, f.actions.add_labels, ok)
          IN  /\ ok \/ added.calls # << >>
              /\ IF added.result = Err
                 THEN /\ fetched' = [fetched EXCEPT !.futures[p].calls = f.calls \o added.calls,
                                                    !.futures[p].pc = "failed"]
                      /\ pc' = "returned"
                      /\ result' = Err
                 ELSE /\ fetched' = [fetched EXCEPT !.futures[p].labels = added.labels,
                                                    !.futures[p].calls = f.calls \o added.calls,
                                                    !.futures[p].pc = "comment"]
                      /\ UNCHANGED <<pc, result>>
    /\ UNCHANGED <<batchFrame, platform>>

\* apply: the loop over actions.post_comment, process::post_comment(...).await?
\* for each comment, up to the first that fails.
ApplyPostComments(p) ==
    /\ mode = "batch"
    /\ pc = "join"
    /\ fetched.futures[p].pc = "comment"
    /\ LET f == fetched.futures[p]
           posted(n) == [i \in 1..n |-> Call("post_comment", <<f.actions.post_comment[i]>>)]
       IN  \/ /\ fetched' = [fetched EXCEPT
                     !.futures[p].calls = f.calls \o posted(Len(f.actions.post_comment)),
                     !.futures[p].pc = "merge"]
              /\ UNCHANGED <<pc, result>>
           \/ \E n \in 1..Len(f.actions.post_comment) :
                 /\ fetched' = [fetched EXCEPT !.futures[p].calls = f.calls \o posted(n),
                                               !.futures[p].pc = "failed"]
                 /\ pc' = "returned"
                 /\ result' = Err
    /\ UNCHANGED <<batchFrame, platform>>

\* apply: if actions.merge { merge::queue(...).await? }, and the Ok(()) of
\* apply and of process_pr.
ApplyMerge(p) ==
    /\ mode = "batch"
    /\ pc = "join"
    /\ fetched.futures[p].pc = "merge"
    /\ LET f == fetched.futures[p]
       IN  IF ~f.actions.merge
           THEN /\ fetched' = [fetched EXCEPT !.futures[p].pc = "done"]
                /\ UNCHANGED <<pc, result>>
           ELSE \/ /\ fetched' = [fetched EXCEPT
                          !.futures[p].calls = Append(f.calls, Call("queue", << >>)),
                          !.futures[p].pc = "done"]
                   /\ UNCHANGED <<pc, result>>
                \/ /\ fetched' = [fetched EXCEPT
                          !.futures[p].calls = Append(f.calls, Call("queue", << >>)),
                          !.futures[p].pc = "failed"]
                   /\ pc' = "returned"
                   /\ result' = Err
    /\ UNCHANGED <<batchFrame, platform>>

\* try_join_all returns Ok once every future has: process returns Ok(()) and
\* process_all goes on to the next repository or returns Ok(()).
JoinAll ==
    /\ mode = "batch"
    /\ pc = "join"
    /\ \A p \in DOMAIN fetched.futures : fetched.futures[p].pc = "done"
    /\ IF fetched.repo < NumRepos
       THEN /\ fetched' = [repo |-> fetched.repo + 1, futures |-> << >>]
            /\ pc' = "list"
            /\ UNCHANGED result
       ELSE /\ pc' = "returned"
            /\ result' = "Ok"
            /\ UNCHANGED fetched
    /\ UNCHANGED <<batchFrame, platform>>

NextBatch ==
    \/ ListPulls
    \/ JoinAll
    \/ \E p \in 1..PullsPerRepo :
          \/ GetBotNick(p)
          \/ StoreBotNick(p)
          \/ Analyze(p)
          \/ ApplyRemoveLabels(p)
          \/ ApplyAddLabels(p)
          \/ ApplyPostComments(p)
          \/ ApplyMerge(p)

SpecBatch == InitBatch /\ [][NextBatch]_vars

(***************************************************************************)
(* Vocabulary of the claims about the review ledger.                       *)
(***************************************************************************)
\* A review state that expresses an opinion under the comment effect.
Meaningful(effect, state) ==
    \/ state \in {"Approved", "ChangesRequested"}
    \/ state = "Commented" /\ effect = "RequestsChange"

\* The verdict a meaningful review state stands for.
VerdictOf(state) == IF state = "Approved" THEN "Approved" ELSE "ChangeRequested"

\* The positions of h at which reviewer r submitted a meaningful review.
MeaningfulAt(h, effect, r) ==
    {i \in 1..Len(h) : h[i].user_name = r /\ Meaningful(effect, h[i].state)}

\* The state of r's chronologically latest meaningful review ("None": r has
\* none).
LatestMeaningful(h, effect, r) ==
    LET at == MeaningfulAt(h, effect, r)
    IN  IF at = {} THEN "None"
        ELSE h[CHOOSE i \in at : \A j \in at : j <= i].state

\* The map recorded from the first n reviews of the history.
MapAfter(n) == record_reviews(EmptyMap, author, comment_effect, SubSeq(history, 1, n))

\* The history without the author's own reviews.
NotSelfReview(review) == review.user_name # author
WithoutSelfReviews == SelectSeq(history, NotSelfReview)

\* The reference result of approved(required) on a map.
ApprovedReference(m, required) ==
    IF \E u \in DOMAIN m : m[u] = "ChangeRequested" THEN FALSE
    ELSE IF \E u \in DOMAIN m : m[u] = "Approved" THEN TRUE
    ELSE required = "Optional"

\* C1: after any recorded history the map holds, for every reviewer other
\* than the author, exactly the verdict of that reviewer's chronologically
\* latest meaningful review (Pending never meaningful, Commented meaningful
\* only under RequestsChange), and no entry for a reviewer without one.
C1_LatestMeaningfulState ==
    /\ DOMAIN review_by_nick \subseteq Nicks \ {author}
    /\ \A r \in Nicks \ {author} :
          LET latest == LatestMeaningful(history, comment_effect, r)
          IN  IF latest = "None"
              THEN r \notin DOMAIN review_by_nick
              ELSE /\ r \in DOMAIN review_by_nick
                   /\ review_by_nick[r] = VerdictOf(latest)

\* C2: when the latest meaningful review of some non-author reviewer is
\* ChangesRequested, approved is false for Required and for Optional, whatever
\* the other reviewers submitted and in whatever order.
C2_StandingChangesRequestedVetoes ==
    (\E r \in Nicks \ {author} :
        LatestMeaningful(history, comment_effect, r) = "ChangesRequested")
    => /\ ~approved(review_by_nick, "Required")
       /\ ~approved(review_by_nick, "Optional")

\* C2 witness: a's ChangesRequested stands while b's later approval is on record.
C2_Witness ==
    /\ Len(history) >= 2
    /\ LatestMeaningful(history, comment_effect, "a") = "ChangesRequested"
    /\ history[Len(history)] = [user_name |-> "b", state |-> "Approved"]
    /\ "b" \in DOMAIN review_by_nick /\ review_by_nick["b"] = "Approved"

\* C3: approved(required) is false if any entry is ChangeRequested, otherwise
\* true if some entry is Approved, otherwise true exactly for Optional.
C3_ApprovedMatchesReference ==
    \A required \in Approval :
        approved(review_by_nick, required) = ApprovedReference(review_by_nick, required)

\* C3 witness: reviews were recorded, the map is still empty, and approval is
\* granted when optional and withheld when required.
C3_Witness ==
    /\ Len(history) = MaxReviews
    /\ review_by_nick = EmptyMap
    /\ approved(review_by_nick, "Optional")
    /\ ~approved(review_by_nick, "Required")

\* C4: recording a review of the PR author leaves the map unchanged, and the
\* map and both approved() results are those of the history with every
\* self-review deleted.
C4_SelfReviewsIgnored ==
    /\ \A i \in 1..Len(history) :
          history[i].user_name = author => MapAfter(i) = MapAfter(i - 1)
    /\ review_by_nick = MapAfter(Len(history))
    /\ LET stripped == record_reviews(EmptyMap, author, comment_effect, WithoutSelfReviews)
       IN  /\ review_by_nick = stripped
           /\ \A required \in Approval :
                 approved(review_by_nick, required) = approved(stripped, required)

\* C4 witness: the author requested changes on their own PR between two
\* reviews of others, under RequestsChange.
C4_Witness ==
    /\ comment_effect = "RequestsChange"
    /\ Len(history) = 3
    /\ history[1].user_name = "a" /\ history[1].state = "Approved"
    /\ history[2].user_name = author /\ history[2].state = "ChangesRequested"
    /\ history[3].user_name = author /\ history[3].state = "Commented"
    /\ approved(review_by_nick, "Required")

C6_ApproveThenComment ==
    history = << [user_name |-> "a", state |-> "Approved"],
                 [user_name |-> "a", state |-> "Commented"] >>
    => IF comment_effect = "RequestsChange"
       THEN /\ ~approved(review_by_nick, "Required")
            /\ ~approved(review_by_nick, "Optional")
       ELSE /\ approved(review_by_nick, "Required")
            /\ approved(review_by_nick, "Optional")

(***************************************************************************)
(* Vocabulary of the claims about a pass over a PR.                        *)
(***************************************************************************)
\* The snapshot of the pass.
Snapshot == from_octocrab_pull_request(pull)

\* A polling pass has returned; an event pass has returned.
PollDone == mode = "poll" /\ pc = "done"
EventDone == mode = "event" /\ pc = "done"

\* An event pass ended with the error of a fetch: no call was made yet.
FetchFailed == result = Err /\ calls = << >>

\* The snapshot is a draft, closed, or was updated strictly more than 60
\* minutes before now.
TerminalSnapshot ==
    \/ pull.draft
    \/ pull.state = "Closed"
    \/ now - Snapshot.updated_at > InactiveMinutes * SecondsPerMinute

\* A polling pass that got through both fetches and returned Actions.
Analyzed == PollDone /\ ~TerminalSnapshot /\ result = "Ok"

\* The state of the last review of user u in the fetched reviews (None: u did
\* not review).
LastReviewOf(u) ==
    LET at == {i \in DOMAIN reviews : reviews[i].user_id = u}
    IN  IF at = {} THEN None
        ELSE reviews[CHOOSE i \in at : \A j \in at : j <= i].state

\* The review verdict of the Analyzer on the fetched reviews: an approval is
\* on record (or no reviewed label is configured) and no reviewer's last
\* review is pending or requests changes.
ReviewVerdict ==
    /\ \/ cfg.reviewed_label = None
       \/ \E u \in UserIds : LastReviewOf(u) = "Approved"
    /\ ~\E u \in UserIds : LastReviewOf(u) \in {"Pending", "ChangesRequested"}

\* Every required status is reported as Success in the fetched statuses.
AllRequiredSuccess ==
    \A r \in Range(cfg.required_statuses) :
        r \in DOMAIN statuses /\ statuses[r] = "Success"

\* The fetched statuses without the statuses that are not required.
RequiredOnly ==
    [c \in (DOMAIN statuses) \cap Range(cfg.required_statuses) |-> statuses[c]]

\* The PR carries the configured block-merge label.
BlockedByLabel ==
    cfg.block_merge_label # None /\ cfg.block_merge_label \in Range(pull.labels)

\* A description is required and the PR has none.
HasDescription == pull.body # None /\ pull.body # ""
MissingDescription == cfg.needs_description_label # None /\ ~HasDescription

\* C7: a draft, closed or inactive (updated more than 60 minutes ago) snapshot
\* makes required_actions return Actions::noop() without any fetch, and
\* process_pr leaves the labels alone, makes no call and no fetch for a draft
\* or closed PR.
C7_TerminalPrIsNoop ==
    /\ (PollDone /\ TerminalSnapshot)
          => /\ result = "Ok"
             /\ actions = [merge |-> FALSE, add_labels |-> {}, remove_labels |-> {}]
             /\ fetches = << >>
    /\ (EventDone /\ (pull.draft \/ pull.state = "Closed"))
          => /\ labels = pull.labels
             /\ calls = << >>
             /\ merge_state = NoMergeState
             /\ "reviews" \notin Range(fetches) /\ "statuses" \notin Range(fetches)

\* C7 witness: an open, non-draft PR last updated 60 minutes and a second ago
\* was analyzed.
C7_Witness ==
    /\ PollDone
    /\ ~pull.draft /\ pull.state = "Open"
    /\ now - pull.updated_at = InactiveMinutes * SecondsPerMinute + 1
    /\ actions = noop

C10_LabelsFollowTheirBooleans ==
    Analyzed =>
        /\ cfg.reviewed_label # None =>
              /\ (cfg.reviewed_label \in actions.add_labels) = ReviewVerdict
              /\ (cfg.reviewed_label \in actions.remove_labels) = ~ReviewVerdict
        /\ (cfg.ci_passed_label \in actions.add_labels) = AllRequiredSuccess
        /\ (cfg.ci_passed_label \in actions.remove_labels) = ~AllRequiredSuccess
        /\ cfg.needs_description_label # None =>
              /\ (cfg.needs_description_label \in actions.add_labels) = ~HasDescription
              /\ (cfg.needs_description_label \in actions.remove_labels) = HasDescription

\* C10 witness: a PR carrying the block-merge label is denied merge and still
\* gets the reviewed and ci-passed labels, and a PR without description
\* likewise (tests.rs merge_blocked_by_label, no_description_pr_actions).
C10_Witness ==
    /\ Analyzed
    /\ BlockedByLabel
    /\ MissingDescription
    /\ ~actions.merge
    /\ actions.add_labels = {ReviewedLabel, CiPassedLabel, NeedsDescriptionLabel}
    /\ actions.remove_labels = {}

(***************************************************************************)
(* Claims about the configuration of the Analyzer (SpecRepo).              *)
(***************************************************************************)
\* The label names the configuration gives to the three label roles.
ConfiguredLabels ==
    {cfg.reviewed_label, cfg.ci_passed_label, cfg.needs_description_label}
        \ {None}

\* C11: a label role that is not configured (reviewed, ci-passed or
\* needs-description) never appears in add_labels or remove_labels of the
\* returned Actions; without a needs-description label a missing description
\* does not block merge, and without a ci-passed label the required statuses
\* still gate merge.
C11_UnconfiguredRolesUntouched ==
    Analyzed =>
        /\ actions.add_labels \cup actions.remove_labels \subseteq ConfiguredLabels
        /\ (/\ cfg.needs_description_label = None
            /\ ~BlockedByLabel /\ ReviewVerdict /\ AllRequiredSuccess)
              => actions.merge
        /\ (cfg.ci_passed_label = None /\ actions.merge) => AllRequiredSuccess

\* The PR was updated within the configured grace period: not
\* now - g > updated_at.
InsideGracePeriod ==
    /\ cfg.automerge_grace_period # NoPeriod
    /\ ~(now - cfg.automerge_grace_period > pull.updated_at)

\* No reason other than the grace period blocks the merge.
OtherwiseEligible ==
    ~BlockedByLabel /\ ~MissingDescription /\ ReviewVerdict /\ AllRequiredSuccess

\* A configured label is in add_labels when its boolean holds and in
\* remove_labels when it does not.
LabelFollows(label, b) ==
    label # None =>
        /\ label \in actions.add_labels <=> b
        /\ label \in actions.remove_labels <=> ~b

\* C12: with a grace period of g seconds configured, merge is false whenever
\* the PR was updated within the last g seconds, while the labels are the
\* ones computed outside the window; with no grace period configured, or
\* once more than g seconds have passed since the update, an otherwise
\* eligible PR yields merge = true.
C12_GracePeriodBlocksMerge ==
    Analyzed =>
        /\ InsideGracePeriod => ~actions.merge
        /\ LabelFollows(cfg.reviewed_label, ReviewVerdict)
        /\ LabelFollows(cfg.needs_description_label, ~HasDescription)
        /\ LabelFollows(cfg.ci_passed_label, AllRequiredSuccess)
        /\ (~InsideGracePeriod /\ OtherwiseEligible) => actions.merge

\* The PR carries the configured skip-review label.
CarriesSkipReviewLabel ==
    /\ cfg.trivial_review_label # None
    /\ cfg.trivial_review_label \in Range(pull.labels)

\* Reviews are required: a reviewed label is configured and the PR does not
\* carry the configured skip-review label.
ReviewsRequired == cfg.reviewed_label # None /\ ~CarriesSkipReviewLabel

\* Requested reviewers who have not reviewed yet.
PendingReviewers == Len(pull.requested_reviewers)

\* No reviewer's last review is pending or requests changes.
NoStandingObjection ==
    ~\E u \in UserIds : LastReviewOf(u) \in {"Pending", "ChangesRequested"}

\* C13: when reviews are required and at least one requested reviewer is
\* still pending, merge is false even if another reviewer approved; when the
\* PR carries the skip-review label, pending requested reviewers do not block
\* the merge of a PR that is eligible otherwise.
C13_PendingReviewersBlockUnlessSkipped ==
    Analyzed =>
        /\ (ReviewsRequired /\ PendingReviewers > 0) => ~actions.merge
        /\ (/\ CarriesSkipReviewLabel
            /\ \E u \in UserIds : LastReviewOf(u) = "Approved"
            /\ NoStandingObjection
            /\ ~BlockedByLabel /\ ~MissingDescription /\ AllRequiredSuccess)
              => actions.merge

\* User u requested changes and has not approved since.
StandingChangesRequested(u) ==
    \E i \in DOMAIN reviews :
        /\ reviews[i].user_id = u
        /\ reviews[i].state = "ChangesRequested"
        /\ \A j \in DOMAIN reviews :
              (j > i /\ reviews[j].user_id = u) => reviews[j].state # "Approved"

\* The fetched reviews are comments only (or there are none).
OnlyComments == \A i \in DOMAIN reviews : reviews[i].state = "Commented"

\* C14: when reviews are not required (no reviewed label configured, or the
\* PR carries the skip-review label), zero reviews or only comments allow the
\* merge of a PR that is eligible otherwise, but a ChangesRequested of any
\* reviewer yields merge = false until that reviewer approves.
C14_NoApprovalNeededButVetoStands ==
    (Analyzed /\ ~ReviewsRequired) =>
        /\ (/\ OnlyComments
            /\ ~BlockedByLabel /\ ~MissingDescription /\ AllRequiredSuccess)
              => actions.merge
        /\ (\E u \in UserIds : StandingChangesRequested(u)) => ~actions.merge

(***************************************************************************)
(* Claims about repeated calls (SpecTwice).                                *)
(***************************************************************************)
\* Both calls of required_actions returned Actions.
CalledTwice == mode = "poll" /\ pc = "again" /\ result = "Ok"

SameSideOfInactivity ==
    (Clock - Snapshot.updated_at > InactiveMinutes * SecondsPerMinute)
        <=> (now - Snapshot.updated_at > InactiveMinutes * SecondsPerMinute)

QueueReturned == mode = "queue" /\ pc = "returned"

\* The positions of the gets in the log of queue, and of the gets the
\* platform answered with a PR.
Gets == {i \in DOMAIN queue_log : queue_log[i].op = "get"}
AnsweredGets == {i \in Gets : queue_log[i].answer # Err}

\* Every get so far was answered with a PR whose mergeable state is Unknown
\* or absent.
OnlyUnknown ==
    \A i \in Gets : queue_log[i].answer \in {"Unknown", None}

\* C16: if every poll of the PR returns mergeability Unknown or absent, queue
\* fetches the PR exactly 3 times, sleeps the fixed interval after each of
\* these answers, issues no merge call, and returns success.
C16_PersistentUnknownGivesUp ==
    /\ OnlyUnknown => Cardinality(Gets) <= 3
    /\ (QueueReturned /\ OnlyUnknown) =>
          /\ Cardinality(Gets) = 3
          /\ Len(queue_log) = 6
          /\ \A i \in 1..3 :
                /\ queue_log[2 * i - 1].op = "get"
                /\ queue_log[2 * i] = Did("sleep", ToString(RetrySleepSeconds))
          /\ calls = << >>
          /\ platform.merged = None
          /\ result = "Ok"

\* C16 witness: queue returned after the answers Unknown, absent, Unknown.
C16_Witness ==
    /\ QueueReturned
    /\ Len(queue_log) = 6
    /\ queue_log[1] = Did("get", "Unknown")
    /\ queue_log[3] = Did("get", None)
    /\ queue_log[5] = Did("get", "Unknown")
    /\ result = "Ok"

\* The get at position i of the log was answered with a mergeable state that
\* allows the merge; with one that does not.
AnsweredMergeable(i) ==
    i \in Gets /\ queue_log[i].answer \in {"Clean", "HasHooks", "Unstable"}
AnsweredBlocking(i) ==
    i \in Gets /\ queue_log[i].answer \in {"Draft", "Behind", "Dirty", "Blocked",
                                          OtherMergeableState}

\* The title "{title} (#{number})" of the PR queued.
ExpectedTitle ==
    IF pull.number = 1 THEN "Fix the thing (#1)" ELSE "Fix the thing (#12)"

MergeRejected(i) == i \in DOMAIN queue_log /\ queue_log[i] = Did("merge", Err)

\* C18 as stated: when the platform rejects the merge call, queue ends with
\* the error surfaced to its caller, and the merge is not retried: no second
\* merge call and no further poll happens in that run.
C18_RejectedMergeSurfacedToCaller ==
    \A i \in DOMAIN queue_log :
        MergeRejected(i) =>
            /\ i = Len(queue_log)
            /\ Len(calls) = 1
            /\ QueueReturned
            /\ result = Err

\* C18, amended: when the platform rejects the merge call, queue ends
\* returning success to its caller, the error being the abort reason it
\* logs, and the merge is not retried: no second merge call and no further
\* poll happens in that run.
C18_RejectedMergeNotRetried ==
    \A i \in DOMAIN queue_log :
        MergeRejected(i) =>
            /\ i = Len(queue_log)
            /\ Len(calls) = 1
            /\ QueueReturned
            /\ result = "Ok"
            /\ platform.merged = None

\* C18 witness: the platform rejected the merge of a head that a push had
\* replaced after the poll, and queue returned.
C18_Witness ==
    /\ QueueReturned
    /\ MergeRejected(Len(queue_log))
    /\ calls[1].arg.sha # platform.head_sha
    /\ result = "Ok"

\* C19: in every interleaving where commits are pushed to the PR after the
\* Analyzer evaluated its snapshot, queue never merges a head commit other
\* than the one (commit_sha) whose statuses and reviews the Analyzer
\* evaluated: every merge call names that commit.
C19_MergesOnlyEvaluatedHead ==
    /\ \A k \in DOMAIN calls : calls[k].arg.sha = Snapshot.commit_sha
    /\ platform.merged # None => platform.merged = Snapshot.commit_sha

\* The PR carries the configured block-merge label on the platform.
BlockedOnPlatform ==
    /\ cfg.block_merge_label # None
    /\ has_label(platform.labels, cfg.block_merge_label) # 0

\* C20: in every interleaving of the pass with a user adding the configured
\* block-merge label to the PR, no merge call is issued for a PR that
\* carries that label on the platform at the moment the call is issued.
C20_NoMergeCallWhileBlocked ==
    [][calls' # calls => ~BlockedOnPlatform]_vars

(***************************************************************************)
(* Claims about the commit message (SpecMessage).                          *)
(***************************************************************************)
\* The commit message of a PR with a body was built, or the attempt ended.
MessageBuilt == mode = "message" /\ pc = "returned" /\ fetched.body # NoneB

\* The body of the PR, and the text remove_html_comments returned for it:
\* the message without the blank line and the URL that follow it.
Body == fetched.body[1]
Removed ==
    LET message == queue_log[1].answer
    IN  SubSeq(message, 1, Len(message) - Len(HtmlUrl) - 2)

\* A "<!--", a "-->" begins at offset i of s.
OpenAt(s, i) == i + 4 <= Len(s) /\ SubSeq(s, i + 1, i + 4) = CommentOpen
CloseAt(s, i) == i + 3 <= Len(s) /\ SubSeq(s, i + 1, i + 3) = CommentClose
Offsets(s) == 0..Len(s)

\* The offset of the first "-->" that follows the "<!--" at offset i of s
\* (NotFound: none does).
ClosingOf(s, i) ==
    LET after == {e \in Offsets(s) : e >= i + 4 /\ CloseAt(s, e)}
    IN  IF after = {} THEN NotFound
        ELSE CHOOSE e \in after : \A f \in after : e <= f

\* s contains a complete span "<!-- ... -->".
HasCompleteSpan(s) ==
    \E i \in Offsets(s) : OpenAt(s, i) /\ ClosingOf(s, i) # NotFound

\* A "<!--" occurs inside a comment span of s: between a "<!--" and the
\* first "-->" that follows it.
HasEmbeddedComment(s) ==
    \E i, j \in Offsets(s) :
        /\ OpenAt(s, i) /\ OpenAt(s, j)
        /\ i + 4 <= j
        /\ ClosingOf(s, i) # NotFound
        /\ j + 4 <= ClosingOf(s, i)

\* The text of s outside its comments, read from the left: a span is left
\* out, and so is everything from a "<!--" that has no closing "-->".
RECURSIVE OutsideComments(_)
OutsideComments(s) ==
    LET opens == {i \in Offsets(s) : OpenAt(s, i)}
        first == CHOOSE i \in opens : \A j \in opens : i <= j
    IN  IF opens = {} THEN s
        ELSE IF ClosingOf(s, first) = NotFound THEN SubSeq(s, 1, first)
        ELSE SubSeq(s, 1, first)
                 \o OutsideComments(SubSeq(s, ClosingOf(s, first) + 4, Len(s)))

\* The characters of s that are not whitespace, in order.
Visible(s) == SelectSeq(s, LAMBDA c : c \notin {" ", "\n"})

\* C21: for every input on which stripping is not aborted,
\* remove_html_comments returns a text that contains no complete
\* "<!-- ... -->" span and keeps all text outside the comments in its
\* original order.
C21_StripsAllCommentSpans ==
    (MessageBuilt /\ ~HasEmbeddedComment(Body)) =>
        /\ result = "Ok"
        /\ ~HasCompleteSpan(Removed)
        /\ Visible(Removed) = Visible(OutsideComments(Body))

\* The offset of the comment of s that is left unterminated: read from the
\* left, span after span, the first "<!--" that no "-->" follows (NotFound:
\* every comment is closed).
RECURSIVE LeftUnterminated(_)
LeftUnterminated(s) ==
    LET opens == {i \in Offsets(s) : OpenAt(s, i)}
        first == CHOOSE i \in opens : \A j \in opens : i <= j
        skip == ClosingOf(s, first) + 3
        later == LeftUnterminated(SubSeq(s, skip + 1, Len(s)))
    IN  IF opens = {} THEN NotFound
        ELSE IF ClosingOf(s, first) = NotFound THEN first
        ELSE IF later = NotFound THEN NotFound
        ELSE skip + later
HasUnterminatedComment(s) == LeftUnterminated(s) # NotFound
FirstUnterminated(s) == LeftUnterminated(s)

\* s neither begins nor ends with whitespace.
Trimmed(s) == s = << >> \/ (Head(s) \notin {" ", "\n"} /\ s[Len(s)] \notin {" ", "\n"})

\* The text returned is what precedes the first "<!--" without a closing
\* "-->", without its comments, trimmed.
TruncatedAtUnterminated ==
    /\ result = "Ok"
    /\ Visible(Removed)
          = Visible(OutsideComments(SubSeq(Body, 1, FirstUnterminated(Body))))
    /\ Trimmed(Removed)
    /\ ~\E i \in Offsets(Removed) : OpenAt(Removed, i)

C24_EmbeddedCommentReturnsInput ==
    (MessageBuilt /\ HasEmbeddedComment(Body)) =>
        /\ result = "Ok"
        /\ Removed = Body

\* C24 witness: " <!--x--><!--<!---->" came back unchanged, its first
\* comment and its leading blank included.
C24_Witness ==
    /\ MessageBuilt
    /\ Body = <<" ">> \o CommentOpen \o CommentClose \o CommentOpen
                \o CommentOpen \o CommentClose
    /\ result = "Ok"
    /\ Removed = Body

(***************************************************************************)
(* Claims about the orchestration (SpecBatch).                             *)
(***************************************************************************)
\* The futures of the repository that is being processed.
Futures == fetched.futures

\* The calls that change the platform: labels, comments and the merge queue.
MutatingCalls == {"add_labels", "remove_label", "post_comment", "queue"}

\* C25: when dry_run is set, processing a PR performs no mutating platform
\* call: no label is added, none is removed, no comment is posted and the
\* merge queue is never entered, whatever Actions the Analyzer computed.
C25_DryRunMutatesNothing ==
    (mode = "batch" /\ cfg.dry_run) =>
        \A p \in DOMAIN Futures :
            \A i \in DOMAIN Futures[p].calls :
                Futures[p].calls[i].call \notin MutatingCalls

\* C25 witness: a dry run finished a PR whose Actions asked for a label to
\* add, a label to remove, a comment and the merge, and made no call.
C25_Witness ==
    /\ mode = "batch"
    /\ cfg.dry_run
    /\ \E p \in DOMAIN Futures :
          /\ Futures[p].pc = "done"
          /\ Futures[p].actions.merge
          /\ Futures[p].actions.add_labels = <<"blocked">>
          /\ Futures[p].actions.remove_labels = <<"old">>
          /\ Futures[p].actions.post_comment # << >>
          /\ Futures[p].calls = << >>

\* C26: one PR's failure does not block others: when the pass of one PR has
\* failed and process_all has returned, every other PR of the repository has
\* been processed to completion, and so has every later repository.
C26_FailureDoesNotBlockOthers ==
    ( /\ mode = "batch"
      /\ pc = "returned"
      /\ \E p \in DOMAIN Futures : Futures[p].pc = "failed" ) =>
        /\ \A p \in DOMAIN Futures : Futures[p].pc \in {"done", "failed"}
        /\ fetched.repo = NumRepos

\* C27: the bot identity is fetched from the platform at most once per
\* process, whatever the interleaving of the futures that call get_bot_nick,
\* and all callers obtain the same value.
C27_BotNickFetchedOnce ==
    mode = "batch" =>
        /\ platform.user_calls <= 1
        /\ \A p \in DOMAIN Futures : Futures[p].nick \in {None, BotLogin}

(***************************************************************************)
(* Claims about the event pass (SpecPr).                                   *)
(***************************************************************************)
\* C28: the reviewed label is applied only when the PR has a reviewer with a
\* verdict and every reviewer's latest verdict is Approved:
\* on_review_state_event never sets reviewed = true for a PR whose fetched
\* reviews contain no approval, for instance only Commented reviews.
C28_ReviewedNeedsAnApproval ==
    (mode = "event" /\ pc = "done" /\ merge_state.reviewed = SomeB(TRUE)) =>
        \E i \in DOMAIN reviews : reviews[i].state = "Approved"

\* The pass was triggered by a status event.
StatusPass == mode = "event" /\ pc = "done" /\ trigger.kind = "Status"

\* C29: a status event never begins an automerge: a pass triggered by a
\* status event only adds or removes labels and does not enter the merge
\* queue, even if all automerge requirements are met afterwards; a status
\* event for a check that is not a required status causes no PR to be
\* processed at all.
C29_StatusEventNeverMerges ==
    StatusPass =>
        /\ \A i \in DOMAIN calls : calls[i].call \in {"add_labels", "remove_label"}
        /\ trigger.context \notin Range(cfg.required_statuses) =>
              /\ fetches = << >>
              /\ calls = << >>
              /\ labels = pull.labels
              /\ merge_state = NoMergeState

\* C29 witness: a status event added the label that completed the automerge
\* requirements, and the pass returned without a call to the merge queue.
C29_Witness ==
    /\ StatusPass
    /\ result = "Ok"
    /\ \E i \in DOMAIN calls : calls[i].call = "add_labels"
    /\ get_mergeable_state(labels, cfg)
    /\ \A i \in DOMAIN calls : calls[i].call # "queue"

\* The flag of each label role in the MergeState of the pass, with the label
\* configured for the role.
RoleFlags ==
    { <<merge_state.needs_description, cfg.needs_description_label>>,
      <<merge_state.reviewed, cfg.reviewed_label>>,
      <<merge_state.ci_passed, cfg.ci_passed_label>> }

\* The labels process_pr asks add_labels to add and remove_labels to remove.
LabelsToAdd == {rf[2] : rf \in {x \in RoleFlags : x[1] = SomeB(TRUE) /\ x[2] # None}}
LabelsToRemove == {rf[2] : rf \in {x \in RoleFlags : x[1] = SomeB(FALSE) /\ x[2] # None}}

\* The labels tracked when the pass began.
OldLabels == Range(pull.labels)

\* The labels sent to the platform for addition, and those whose removal was
\* requested.
LabelsSent ==
    UNION {Range(calls[i].arg) : i \in {j \in DOMAIN calls : calls[j].call = "add_labels"}}
RemovalsRequested ==
    UNION {Range(calls[i].arg) : i \in {j \in DOMAIN calls : calls[j].call = "remove_label"}}

\* The add_labels call of the pass was refused by the platform.
AddRefused == result = Err /\ \A i \in DOMAIN calls : calls[i].call = "add_labels"

\* C30: label changes only issue calls for real changes: add_labels sends
\* only labels that are not in the tracked set, and makes no call when there
\* is none; remove_labels requests the removal only of labels that are in
\* the tracked set; afterwards the tracked set is the old set plus the
\* labels added, minus the labels removed.
C30_LabelCallsOnlyForRealChanges ==
    (mode = "event" /\ pc = "done") =>
        /\ LabelsSent \subseteq LabelsToAdd \ OldLabels
        /\ \A i \in DOMAIN calls : calls[i].call = "add_labels" => calls[i].arg # << >>
        /\ RemovalsRequested \subseteq (OldLabels \cup LabelsSent) \cap LabelsToRemove
        /\ IF AddRefused
           THEN labels = pull.labels
           ELSE Range(labels) = (OldLabels \cup LabelsSent) \ LabelsToRemove

\* C30 witness: a pass sent the one label that was missing, although the PR
\* carried other labels, and tracks it afterwards.
C30_Witness ==
    /\ mode = "event"
    /\ pc = "done"
    /\ result = "Ok"
    /\ OldLabels # {}
    /\ LabelsSent # {}
    /\ LabelsSent = LabelsToAdd \ OldLabels
    /\ Range(labels) = OldLabels \cup LabelsSent

(***************************************************************************)
(* Claims about the runs of merge::queue (SpecQueueFair, SpecQueue).       *)
(***************************************************************************)
\* The merge calls queue has made.
MergeCalls == {i \in DOMAIN queue_log : queue_log[i].op = "merge"}

UnknownGets == {i \in Gets : queue_log[i].answer \in {"Unknown", None}}

\* C32: every poll of queue fetches the PR again and decides on that answer
\* only: a sleep follows a get answered Unknown or absent, a merge call
\* follows a get answered Clean, HasHooks or Unstable and names the head that
\* get returned; if a get fails, queue returns that error at once, with no
\* merge call, no sleep and no further get, and the failed get is not
\* counted as an Unknown attempt.
C32_DecidesOnFreshFetchOnly ==
    mode = "queue" =>
        /\ \A i \in DOMAIN queue_log :
              /\ queue_log[i].op = "sleep" => (i - 1) \in UnknownGets
              /\ queue_log[i].op = "merge" =>
                    /\ AnsweredMergeable(i - 1)
                    /\ calls[1].arg.sha = fetched.head_sha
              /\ (i \in Gets /\ queue_log[i].answer = Err) =>
                    /\ i = Len(queue_log)
                    /\ QueueReturned
                    /\ result = Err
                    /\ calls = << >>
                    /\ platform.merged = None
        /\ retry_count = Cardinality(UnknownGets)

\* C32 witness: the second get failed after an Unknown answer and a sleep;
\* queue returned the error with one attempt counted.
C32_Witness ==
    /\ QueueReturned
    /\ Len(queue_log) = 3
    /\ queue_log[1] = Did("get", "Unknown")
    /\ queue_log[3] = Did("get", Err)
    /\ result = Err
    /\ retry_count = 1

(***************************************************************************)
(* Claims about apply (SpecBatch).                                         *)
(***************************************************************************)
\* The place of a call in the order of apply.
ApplyRank(c) ==
    CASE c.call = "remove_label" -> 1
      [] c.call = "add_labels" -> 2
      [] c.call = "post_comment" -> 3
      [] c.call = "queue" -> 4

\* The calls of a future that have the given name.
CallsNamed(f, name) == {i \in DOMAIN f.calls : f.calls[i].call = name}

\* C33: in apply the platform calls of one PR happen in the order label
\* removals, label additions, posted comments, merge queue; the merge queue
\* is entered only if Actions.merge is true and only after every earlier step
\* succeeded, so a failed label addition or comment means no merge is
\* attempted in that pass.
C33_ApplyOrderAndMergeLast ==
    mode = "batch" =>
        \A p \in DOMAIN Futures :
            LET f == Futures[p]
            IN  /\ \A i, j \in DOMAIN f.calls :
                      i < j => ApplyRank(f.calls[i]) <= ApplyRank(f.calls[j])
                /\ CallsNamed(f, "queue") # {} =>
                      /\ f.actions.merge
                      /\ Cardinality(CallsNamed(f, "queue")) = 1
                      /\ Range(f.actions.add_labels) \subseteq Range(f.labels)
                      /\ Range(f.actions.remove_labels) \cap Range(f.labels) = {}
                      /\ Cardinality(CallsNamed(f, "post_comment"))
                            = Len(f.actions.post_comment)
                /\ (f.pc = "failed" /\ f.calls # << >>
                        /\ f.calls[Len(f.calls)].call \in {"add_labels", "post_comment"}) =>
                      CallsNamed(f, "queue") = {}

\* C33 witness: a pass removed a label, added one, posted its comment and
\* then entered the merge queue.
C33_Witness ==
    /\ mode = "batch"
    /\ \E p \in DOMAIN Futures :
          /\ Futures[p].pc = "done"
          /\ [i \in DOMAIN Futures[p].calls |-> Futures[p].calls[i].call]
                = <<"remove_label", "add_labels", "post_comment", "queue">>

(***************************************************************************)
(* Claims about the pages of reviews (SpecPaging).                         *)
(***************************************************************************)
\* The turns of the page loop: the requests for the page reviews.next names.
NextPageFetches == {i \in DOMAIN fetches : fetches[i] = "reviews.next"}

\* C34: fetching the reviews of a PR terminates for any finite number of
\* result pages and visits every page exactly once, in order: the page that
\* the link of the listed page names is requested at most once.
C34_EveryPageVisitedOnce ==
    mode = "event" => Cardinality(NextPageFetches) <= 1

(***************************************************************************)
(* More claims about the event pass (SpecPr).                              *)
(***************************************************************************)
\* The pass handled a Synchronize event about a PR it does not skip.
SynchronizePass ==
    /\ mode = "event"
    /\ pc = "done"
    /\ trigger.kind = "PullRequest"
    /\ trigger.action = "Synchronize"
    /\ ~pull.draft
    /\ pull.state # "Closed"

\* C35: when a Synchronize event (new commits pushed) is processed, CI is
\* marked not passed: the ci-passed label is removed from the PR's tracked
\* labels and its removal is requested, and no merge is queued in that pass,
\* even if the PR carried the ci-passed and reviewed labels before the event.
C35_SynchronizeClearsCiPassed ==
    SynchronizePass =>
        /\ merge_state.ci_passed = SomeB(FALSE)
        /\ cfg.ci_passed_label \notin Range(labels)
        /\ cfg.ci_passed_label \in Range(pull.labels) =>
              \E i \in DOMAIN calls : calls[i] = Call("remove_label", <<cfg.ci_passed_label>>)
        /\ \A i \in DOMAIN calls : calls[i].call # "queue"

\* C35 witness: commits were pushed to a PR that carried the ci-passed and
\* reviewed labels and no blocking label; the removal of ci-passed was
\* requested and nothing else was called.
C35_Witness ==
    /\ SynchronizePass
    /\ get_mergeable_state(pull.labels, cfg)
    /\ cfg.reviewed_label \in Range(pull.labels)
    /\ calls = <<Call("remove_label", <<cfg.ci_passed_label>>)>>
    /\ ~get_mergeable_state(labels, cfg)

\* The fetched reviews with every Commented review deleted.
IsNotComment(review) == review.state # "Commented"
ReviewsWithoutComments == SelectSeq(reviews, IsNotComment)

\* C36: Commented reviews are neutral for the Analyzer: inserting or deleting
\* Commented reviews at any position of the review history, also after the
\* same reviewer's Approved or ChangesRequested, never changes the Actions
\* required_actions returns: they are the Actions of the history without
\* its comments.
C36_CommentsAreNeutral ==
    Analyzed =>
        actions = decide(cfg, Snapshot, pr_statuses_passed(cfg, statuses),
                         pr_approved(cfg, ReviewsWithoutComments))

(***************************************************************************)
(* More claims about the review ledger (Spec).                             *)
(***************************************************************************)
\* The reviews of reviewer r in the history h, in their order.
ReviewsBy(h, r) ==
    LET by_r(review) == review.user_name = r
    IN  SelectSeq(h, by_r)

\* The histories that hold the reviews of h with every reviewer's reviews in
\* the same relative order: the reviewers interleaved in another way.
Interleavings(h) ==
    LET reordered == {[i \in DOMAIN h |-> h[pi[i]]] : pi \in Permutations(DOMAIN h)}
    IN  {g \in reordered : \A r \in Nicks : ReviewsBy(g, r) = ReviewsBy(h, r)}

\* C37: the final verdict of a reviewer depends only on that reviewer's own
\* reviews in their relative order: two histories that contain the same
\* per-reviewer subsequences but interleave the reviewers differently produce
\* the same verdict map and the same approved() results.
C37_InterleavingDoesNotMatter ==
    mode = "ledger" =>
        \A g \in Interleavings(history) :
            LET m == record_reviews(EmptyMap, author, comment_effect, g)
            IN  /\ m = review_by_nick
                /\ \A approval_required \in Approval :
                      approved(m, approval_required)
                          = approved(review_by_nick, approval_required)

\* C37 witness: b's comment came between a's approval and a's comment, and
\* comments request changes; recorded in that order or with b's comment first
\* or last, a is Approved and b is ChangeRequested.
C37_Witness ==
    /\ mode = "ledger"
    /\ comment_effect = "RequestsChange"
    /\ history = << [user_name |-> "a", state |-> "Approved"],
                    [user_name |-> "b", state |-> "Commented"],
                    [user_name |-> "a", state |-> "Commented"] >>
    /\ Cardinality(Interleavings(history)) = 3
    /\ review_by_nick = [n \in {"a", "b"} |-> IF n = "a" THEN "Approved"
                                              ELSE "ChangeRequested"]

(***************************************************************************)
(* More claims about the commit message (SpecMessage).                     *)
(***************************************************************************)
\* C38: remove_html_comments is total: for every body, including the ones
\* where the opening "<!--" and the closing "-->" overlap ("<!-->",
\* "<!--->"), it returns a string and never fails on an out-of-range or
\* inverted slice.
C38_RemoveHtmlCommentsIsTotal ==
    (mode = "message" /\ pc = "returned") => result = "Ok"

(***************************************************************************)
(* More claims about the orchestration (SpecBatch).                        *)
(***************************************************************************)
\* A future was stopped by the panic of a conflicting borrow.
BorrowPanic ==
    \/ result = "Panic"
    \/ \E p \in DOMAIN Futures : Futures[p].pc = "panicked"

\* C39: get_bot_nick never holds a borrow of the bot_nick cell across a
\* suspension point, so in every interleaving of the futures that call it on
\* the shared client no future meets a conflicting borrow (no borrow panic);
\* once a call has completed the cell holds the value the call returned, and
\* a value in the cell is never cleared or changed.
C39_NoBorrowAcrossAwait ==
    /\ [](mode = "batch" =>
            /\ platform.borrows = 0
            /\ ~BorrowPanic
            /\ \A p \in DOMAIN Futures :
                  Futures[p].nick # None => platform.bot_nick = SomeB(Futures[p].nick))
    /\ [][(mode = "batch" /\ platform.bot_nick # NoneB) =>
              platform'.bot_nick = platform.bot_nick]_vars

\* C39 witness: two futures had both sent the request for the bot's user
\* before either stored the login; both stored it and went on.
C39_Witness ==
    /\ mode = "batch"
    /\ platform.user_calls >= 2
    /\ platform.bot_nick = SomeB(BotLogin)
    /\ Cardinality({p \in DOMAIN Futures : Futures[p].nick = BotLogin}) >= 2
    /\ ~BorrowPanic

====
